---- MODULE Spec2Model ----
(***************************************************************************)
(* Model of the mcp-swarm supervisor runtime: ProcessManager               *)
(* (src/src/process-manager.ts), RequestQueue (src/unnamed/part_001,       *)
(* request-queue.ts) and the session teardown of src/src/http-server.ts.   *)
(*                                                                         *)
(* Node.js runs one handler at a time; an async function runs without      *)
(* interruption up to its next await on I/O or a timer.  Every action      *)
(* below is one such uninterrupted stretch: the synchronous part of a      *)
(* handler together with the promise continuations (micro-tasks) it makes  *)
(* runnable.  The suspension points of the code (transport connect, the    *)
(* initial listTools, client/transport close, a tool call in flight, a     *)
(* timer) are the places where one action ends and another begins.         *)
(***************************************************************************)
EXTENDS Integers, Sequences, FiniteSets, TLC

\* ------------------------------------------------------------------ bounds
MaxObj == 3          \* ManagedServer objects reachable at one time
MaxSpawnProcs == 2   \* spawnServer/_doSpawn invocations in progress at once
MaxCalls == 3        \* tool calls submitted in one run
MaxExtraCalls == 1   \* further tool calls in a long run (SpecPoolLong)
MaxSched == 2        \* reconnects scheduled in a row before crashes stop
MaxCrashes == 4      \* crashes of a CONNECTED worker that are counted
MaxFewCalls == 2     \* tool calls submitted in a short run (SpecSession, ...)
MaxStderr == 2       \* stderr lines a worker writes (SpecStderr)
MaxPid == 2          \* process ids the previous run may have recorded
MaxDirs == 2         \* temp directories that exist at one time

\* ------------------------------------------------------- program constants
AUTO_RECONNECT_MAX_RETRIES == 3
AUTO_RECONNECT_BASE_DELAY_MS == 2000
\* read from the environment (default 4); the model runs the supervisor
\* with MAX_SERVER_INSTANCES=2
MAX_SERVER_INSTANCES == 2
MAX_STDERR_LINES == 50
\* read from the environment (default 50); the model runs the supervisor
\* with MAX_SESSIONS=2
MAX_SESSIONS == 2

\* ------------------------------------------------------------------- names
Bases == {"b"}
Prefixes == {"p1", "p2"}
\* a session id is a UUID; only its first 8 characters and the rest matter
SessionIds == {<<"p1", "x">>, <<"p1", "y">>, <<"p2", "x">>}
NoSession == <<"", "">>
shortSession(s) == s[1]                       \* sessionId.slice(0, 8)

\* internal name  base, base#hash or base@at
primaryName(b) == [base |-> b, hash |-> 0, at |-> ""]
scaledName(b, k) == [base |-> b, hash |-> k, at |-> ""]
sessionName(b, s) == [base |-> b, hash |-> 0, at |-> shortSession(s)]
Names ==
  {primaryName(b) : b \in Bases}
  \cup {scaledName(b, k) : b \in Bases, k \in 1..MAX_SERVER_INSTANCES}
  \cup {sessionName(b, s) : b \in Bases, s \in SessionIds}
NoName == [base |-> "", hash |-> 0, at |-> ""]
includesHash(n) == n.hash > 0                 \* name.includes("#")
includesAt(n) == n.at # ""                    \* name.includes("@")

Types == {"STDIO", "SSE", "STREAMABLE_HTTP"}
Configs == [type : Types, stateful : BOOLEAN]
NoConfig == [type |-> "", stateful |-> FALSE]

ObjIds == 1..MaxObj
Sids == 1..MaxSpawnProcs
CallIds == 1..(MaxCalls + MaxExtraCalls)
\* process ids: 1..MaxPid belong to children of the previous run of the
\* supervisor; the children of this run have other ids, and which one a
\* child has is not told apart
OldPids == 1..MaxPid
ChildPid == MaxPid + 1

VARIABLES
  mgd,               \* heap of ManagedServer objects, by object id
  servers,           \* ProcessManager.servers: name -> object id (0 absent)
  spawns,            \* spawnServer/_doSpawn invocations in progress
  spawnLocks,        \* ProcessManager.spawnLocks: name -> sid (0 absent)
  timers,            \* objects whose reconnect setTimeout is pending
  reconnectTimers,   \* ProcessManager.reconnectTimers: name -> object id
  store,             \* db servers table: name -> config
  queues,            \* RequestQueue.queues: base -> sequence of call ids
  instances,         \* RequestQueue.instances: base -> sequence of handles
  pendingScaleUps,   \* RequestQueue.pendingScaleUps
  scalingInProgress, \* ProcessManager.scalingInProgress
  calls,             \* tool calls: call id -> record
  nextCall,          \* number of calls submitted so far
  dispatched,        \* base -> call ids in the order _dispatch handed them on
  sessions,          \* http-server sessions: session id -> new/open/closed
  sessionInstances,  \* ProcessManager.sessionInstances: session id -> map
  sessionSpawnLocks, \* ProcessManager.sessionSpawnLocks: id, base -> sid
  releases,          \* releaseSessionInstances calls awaiting their stops
  reply,             \* the result the last meta-tool call returned
  db,                \* db.ts module variable db: "null" or "open"
  pids,              \* db pids table: name -> process id (0 absent)
  procs,             \* children of the previous run: dead/alive/signalled
  boot,              \* progress of module evaluation and main()
  response,          \* the HTTP response written in the last step
  health,            \* the _healthCheck run in progress
  tempDirs,          \* temp directories on disk and sessionTempDirs
  profiles,          \* the profiles table of the store
  teardowns          \* per session: what cleanupSession has done so far

vars == <<mgd, servers, spawns, spawnLocks, timers, reconnectTimers, store,
          queues, instances, pendingScaleUps, scalingInProgress, calls,
          nextCall, dispatched, sessions, sessionInstances, sessionSpawnLocks,
          releases, reply, db, pids, procs, boot,
          response, health, tempDirs, profiles, teardowns>>

\* an HTTP response on /mcp: the status written by handleRequest itself
\* ("transport" when the request was handed to a session's transport), the
\* id of the session that was created, and the request it answers; with it,
\* the bases for which the last step has called onScaleUp
NoResponse ==
  [status |-> "", session |-> NoSession, method |-> "", supplied |-> NoSession,
   signal |-> {}]

\* a run of _healthCheck: the object whose listTools it awaits (0: no run
\* in progress) and the rest of its snapshot of servers
NoHealth == [probing |-> 0, rest |-> <<>>]

\* what cleanupSession has done for a session: calls of cleanupSession,
\* sessions.delete, session:closed events, calls of releaseSessionInstances
\* (each counted up to 2)
NoTeardowns ==
  [s \in SessionIds |-> [calls |-> 0, deleted |-> 0, closed |-> 0,
                         released |-> 0]]
upTo2(n) == IF n < 2 THEN n + 1 ELSE n

\* profiles: the built-in ones of profiles.json (read-only) and the rows of
\* the profiles table (name -> description and servers)
BuiltinProfiles == {"dev"}
ProfileNames == {"dev", "ops", "mine"}
Descriptions == {"d1", "d2"}
ServerLists == {<<>>, <<"b">>, <<"b", "c">>}
NoBundle == [description |-> "", servers |-> <<>>]
NoProfiles == [n \in ProfileNames |-> NoBundle]

\* the temp directories mkdtempSync has made and rmSync has not removed
\* (directory -> the session it was made for), and sessionTempDirs
DirIds == 1..MaxDirs
NoTemp == [disk |-> [d \in DirIds |-> NoSession],
           session |-> [s \in SessionIds |-> {}]]

\* A settled call keeps only the fact that it is settled: its result is
\* dropped at the end of the step after the one that settled it.
NoCall ==
  [state |-> "new", base |-> "", sess |-> NoSession, on |-> NoName, obj |-> 0,
   result |-> "", aged |-> 0, queued |-> FALSE, mapOk |-> FALSE,
   runs |-> 0, expired |-> 0, drained |-> 0, settles |-> 0]
forgotten(call) ==
  [call EXCEPT !.result = "", !.on = NoName, !.obj = 0, !.aged = 0,
               !.mapOk = FALSE,
               !.runs = IF call.runs + call.expired + call.drained < 2
                        THEN call.runs + call.expired + call.drained ELSE 2,
               !.expired = 0, !.drained = 0]

\* the whole state as one record, so that the synchronous helper methods of
\* the code can be written as functions from state to state and composed.
\* fits  turns FALSE when a step would need more ManagedServer objects or
\* spawn records than the bounds provide; such a step is not taken.
Cur ==
  [mgd |-> mgd, servers |-> servers, spawns |-> spawns,
   spawnLocks |-> spawnLocks, timers |-> timers,
   reconnectTimers |-> reconnectTimers, store |-> store, queues |-> queues,
   instances |-> instances, pendingScaleUps |-> pendingScaleUps,
   scalingInProgress |-> scalingInProgress,
   calls |-> [c \in CallIds |->
                IF calls[c].state = "done" THEN forgotten(calls[c])
                ELSE calls[c]],
   nextCall |-> nextCall, dispatched |-> dispatched, sessions |-> sessions,
   sessionInstances |-> sessionInstances,
   sessionSpawnLocks |-> sessionSpawnLocks, releases |-> releases,
   reply |-> reply, db |-> db, pids |-> pids, procs |-> procs,
   boot |-> boot, response |-> NoResponse, health |-> health,
   tempDirs |-> tempDirs, profiles |-> profiles, teardowns |-> teardowns,
   fits |-> TRUE]

\* -------------------------------------------------------------------- text
\* A string is a sequence of characters.
toLowerCase(t) ==
  [i \in 1..Len(t) |->
     CASE t[i] = "E" -> "e"
       [] t[i] = "N" -> "n"
       [] t[i] = "O" -> "o"
       [] t[i] = "T" -> "t"
       [] OTHER -> t[i]]

\* String.prototype.includes
includes(t, pat) ==
  \E i \in 0..(Len(t) - Len(pat)) :
    \A j \in 1..Len(pat) : t[i + j] = pat[j]

\* Array.prototype.join("\n")
RECURSIVE join(_)
join(lines) ==
  IF lines = <<>> THEN <<>>
  ELSE IF Len(lines) = 1 THEN lines[1]
  ELSE lines[1] \o <<"\n">> \o join(Tail(lines))

\* Array.prototype.slice(-n)
lastLines(lines, n) ==
  IF Len(lines) <= n THEN lines
  ELSE SubSeq(lines, Len(lines) - n + 1, Len(lines))

\* the markers of a permanent failure
PermanentMarkers ==
  {<<"e", "4", "0", "4">>,
   <<"n", "o", "t", " ", "f", "o", "u", "n", "d">>,
   <<"e", "n", "o", "e", "n", "t">>,
   <<"c", "o", "m", "m", "a", "n", "d", " ",
     "n", "o", "t", " ", "f", "o", "u", "n", "d">>,
   <<"n", "o", "t", " ", "i", "n", " ", "t", "h", "i", "s", " ",
     "r", "e", "g", "i", "s", "t", "r", "y">>}

\* isPermanentFailure of transport.onclose (_spawnStdio)
isPermanentFailure(stderrBuffer) ==
  LET stderrText == toLowerCase(join(stderrBuffer))
  IN \E m \in PermanentMarkers : includes(stderrText, m)

\* the stderr lines a worker of the model writes: npm's "E404", the words
\* "Not" and "found" on lines of their own, "ENOENT" and a harmless line
StderrLines ==
  {<<"E", "4", "0", "4">>, <<"N", "o", "t">>, <<"f", "o", "u", "n", "d">>,
   <<"o", "k">>}

\* the result of a meta-tool call
NoReply == [tool |-> "", name |-> NoName, isError |-> FALSE]

\* errorMessage: which message, and the stderr lines it quotes
NoError == [kind |-> "", lines |-> <<>>]

\* ---------------------------------------------------------- ManagedServer
\* status  "free" marks an unallocated heap cell.  chan is the state of the
\* transport object itself (its onclose fires once, open -> closed); stop is
\* the progress of the stopServer call that removed the object.  hist is
\* history, handed on from a crashed object to the object its reconnect
\* creates: episode = delays of the reconnects scheduled since the worker
\* last reached CONNECTED, crashes = number of attempts in a row that
\* reached CONNECTED and then lost their transport, connected = some
\* attempt has reached CONNECTED.  owner is the session
\* whose call made _callStatefulInstance spawn the object, closedIn the
\* status the object had when its transport closed.
NoHistory == [episode |-> <<>>, crashes |-> 0, connected |-> FALSE]
\* an entry of sessionInstances: is there a map for the session, and the
\* bases it maps (base b is always mapped to the name b@shortSession)
NoSessionMap == [present |-> FALSE, has |-> {}]
NoManaged ==
  [name |-> NoName, config |-> NoConfig, client |-> FALSE, chan |-> "none",
   transport |-> FALSE, status |-> "free", reconnectAttempts |-> 0,
   stop |-> "none", hist |-> NoHistory, owner |-> NoSession,
   stderrBuffer |-> <<>>, errorMessage |-> NoError, closedIn |-> "",
   pid |-> 0, reaped |-> FALSE]

\* the object _doSpawn creates, after _spawnStdio/_spawnSSE has created the
\* transport and the client and has started client.connect
newManaged(n, cfg, h) ==
  [name |-> n, config |-> cfg, client |-> TRUE, chan |-> "open",
   transport |-> TRUE, status |-> "connecting", reconnectAttempts |-> 0,
   stop |-> "none", hist |-> h, owner |-> NoSession,
   stderrBuffer |-> <<>>, errorMessage |-> NoError, closedIn |-> "",
   pid |-> 0, reaped |-> FALSE]

canAlloc(st) == \E o \in ObjIds : st.mgd[o].status = "free"
allocId(st) ==
  CHOOSE o \in ObjIds :
    /\ st.mgd[o].status = "free"
    /\ \A p \in ObjIds : p < o => st.mgd[p].status # "free"


\* A ManagedServer object that nothing can reach any more (not in the live
\* index, no spawn, stop, timer or tool call holds it, its transport cannot
\* fire onclose) is garbage; its heap cell is freed.
reachable(st, o) ==
  \/ \E n \in Names : st.servers[n] = o
  \/ \E p \in st.spawns : p.obj = o \/ p.wait = o \/ p.origin.old = o
  \/ o \in st.timers
  \/ st.mgd[o].stop = "closing"
  \/ st.mgd[o].chan = "open"
  \/ \E c \in CallIds : st.calls[c].state = "inflight" /\ st.calls[c].obj = o
  \/ \E r \in st.releases : o \in r.waits
  \/ st.health.probing = o
  \/ \E i \in 1..Len(st.health.rest) : st.health.rest[i] = o

\* an object that has left the live index never returns to it, and its
\* history, its stderr lines and its errorMessage are not read again
collect(st) ==
  [st EXCEPT !.mgd = [o \in ObjIds |->
     IF ~reachable(st, o) THEN NoManaged
     ELSE IF st.servers[st.mgd[o].name] # o
     THEN [st.mgd[o] EXCEPT !.hist = NoHistory, !.stderrBuffer = <<>>,
                            !.errorMessage = NoError, !.closedIn = "",
                            !.pid = 0]
     ELSE st.mgd[o]]]

Commit(st0) ==
  LET st == collect(st0) IN
  /\ st0.fits
  /\ mgd' = st.mgd
  /\ servers' = st.servers
  /\ spawns' = st.spawns
  /\ spawnLocks' = st.spawnLocks
  /\ timers' = st.timers
  /\ reconnectTimers' = st.reconnectTimers
  /\ store' = st.store
  /\ queues' = st.queues
  /\ instances' = st.instances
  /\ pendingScaleUps' = st.pendingScaleUps
  /\ scalingInProgress' = st.scalingInProgress
  /\ calls' = st.calls
  /\ nextCall' = st.nextCall
  /\ dispatched' = st.dispatched
  /\ sessions' = st.sessions
  /\ sessionInstances' = st.sessionInstances
  /\ sessionSpawnLocks' = st.sessionSpawnLocks
  /\ releases' = st.releases
  /\ reply' = st.reply
  /\ db' = st.db
  /\ pids' = st.pids
  /\ procs' = st.procs
  /\ boot' = st.boot
  /\ response' = st.response
  /\ health' = st.health
  /\ tempDirs' = st.tempDirs
  /\ profiles' = st.profiles
  /\ teardowns' = st.teardowns

\* spawn record: one spawnServer/_doSpawn invocation (or the caller that is
\* still awaiting its outcome).  origin.kind names the caller, origin.old the
\* crashed object of a reconnect, origin.call the tool call of a session
\* spawn.
origin(kind, old, call) == [kind |-> kind, old |-> old, call |-> call]
spawnRec(sid, n, cfg, org, pc, obj, wait) ==
  [sid |-> sid, name |-> n, config |-> cfg, origin |-> org, pc |-> pc,
   obj |-> obj, wait |-> wait]

usedSids(st) == {p.sid : p \in st.spawns}
canFork(st) == \E s \in Sids : s \notin usedSids(st)
freshSid(st) ==
  CHOOSE s \in Sids :
    s \notin usedSids(st) /\ \A t \in Sids : t < s => t \in usedSids(st)

\* ------------------------------------------------------------ RequestQueue
handle(n, idx) ==
  [internalName |-> n, index |-> idx, busy |-> FALSE, call |-> 0]

positionOf(list, n) ==
  LET hits == {i \in 1..Len(list) : list[i].internalName = n}
  IN IF hits = {} THEN 0 ELSE CHOOSE i \in hits : \A j \in hits : i <= j

registerInstance(st, b, inst) ==
  LET list == st.instances[b]
      existing == positionOf(list, inst.internalName)
  IN IF existing > 0
     THEN [st EXCEPT !.instances[b][existing] = inst]
     ELSE [st EXCEPT !.instances[b] = Append(list, inst)]

removeAt(list, i) ==
  [j \in 1..(Len(list) - 1) |-> IF j < i THEN list[j] ELSE list[j + 1]]

unregisterInstance(st, n, b) ==
  LET list == st.instances[b]
      idx == positionOf(list, n)
  IN IF idx > 0 THEN [st EXCEPT !.instances[b] = removeAt(list, idx)] ELSE st

\* settle a call: its promise resolves or rejects with  res
resolveCall(st, c, res) ==
  [st EXCEPT !.calls[c].state = "done", !.calls[c].result = res,
             !.calls[c].settles = IF @ < 2 THEN @ + 1 ELSE @]

\* request.reject(...) of a request taken out of the queue unexecuted
rejectCall(st, c, res) ==
  resolveCall(
    IF res = "ttl"
    THEN [st EXCEPT !.calls[c].expired = IF @ < 2 THEN @ + 1 ELSE @]
    ELSE [st EXCEPT !.calls[c].drained = IF @ < 2 THEN @ + 1 ELSE @],
    c, res)

RECURSIVE rejectAll(_, _, _)
rejectAll(st, q, res) ==
  IF q = <<>> THEN st ELSE rejectAll(rejectCall(st, Head(q), res), Tail(q), res)

\* variant: the waiting requests are dropped without being rejected
drainServer_NoReject(st, b) ==
  [st EXCEPT !.queues[b] = <<>>, !.instances[b] = <<>>,
             !.pendingScaleUps = @ \ {b}]

drainServer(st, b) ==
  LET st1 == rejectAll(st, st.queues[b], "stopped")
  IN [st1 EXCEPT !.queues[b] = <<>>, !.instances[b] = <<>>,
                 !.pendingScaleUps = @ \ {b}]

clearPendingScaleUp(st, b) == [st EXCEPT !.pendingScaleUps = @ \ {b}]

\* ProcessManager.callTool up to its first await: an absent or unconnected
\* server answers at once (the call is left "returning" until the
\* micro-task that delivers the answer runs), otherwise the call is in
\* flight on that server's client.
callTool(st, n, c) ==
  LET o == st.servers[n]
  IN IF o = 0
     THEN [st EXCEPT !.calls[c].state = "returning", !.calls[c].on = n,
                     !.calls[c].result = "notfound"]
     ELSE IF st.mgd[o].status # "connected" \/ ~st.mgd[o].client
     THEN [st EXCEPT !.calls[c].state = "returning", !.calls[c].on = n,
                     !.calls[c].result = "notconnected"]
     ELSE [st EXCEPT !.calls[c].state = "inflight", !.calls[c].on = n,
                     !.calls[c].obj = o]

\* variant: the newest request is taken
shift_Newest(q) ==
  [request |-> q[Len(q)], queue |-> SubSeq(q, 1, Len(q) - 1)]

\* queue.shift()
shift(q) == [request |-> Head(q), queue |-> Tail(q)]

\* the for-loop of _dispatch from position i on; _execute up to its await
RECURSIVE dispatchFrom(_, _, _)
dispatchFrom(st, b, i) ==
  IF i > Len(st.instances[b]) \/ st.queues[b] = <<>> THEN st
  ELSE IF st.instances[b][i].busy THEN dispatchFrom(st, b, i + 1)
  ELSE LET c == shift(st.queues[b]).request
           st1 == [st EXCEPT !.queues[b] = shift(@).queue,
                             !.instances[b][i].busy = TRUE,
                             !.instances[b][i].call = c,
                             !.calls[c].aged = 0,
                             !.calls[c].runs = IF @ < 2 THEN @ + 1 ELSE @,
                             !.dispatched[b] = Append(@, c)]
       IN dispatchFrom(callTool(st1, st.instances[b][i].internalName, c),
                       b, i + 1)

\* variant: no handle is registered for a base without instances
dispatch_NoFallback(st, b) ==
  IF st.queues[b] = <<>> THEN st
  ELSE dispatchFrom(st, b, 1)

\* _dispatch: a base without handles gets one for its primary name
dispatch(st, b) ==
  IF st.queues[b] = <<>> THEN st
  ELSE LET st0 == IF st.instances[b] = <<>>
                  THEN registerInstance(st, b, handle(primaryName(b), 0))
                  ELSE st
       IN dispatchFrom(st0, b, 1)

\* the finally-block of _execute for call c: the handle object the call was
\* started on (if it is still registered) becomes idle
releaseHandle(st, b, c) ==
  LET list == st.instances[b]
      hits == {i \in 1..Len(list) : list[i].busy /\ list[i].call = c}
  IN IF hits = {} THEN st
     ELSE LET i == CHOOSE j \in hits : TRUE
          IN [st EXCEPT !.instances[b][i].busy = FALSE,
                        !.instances[b][i].call = 0]

\* run the micro-tasks of the calls that were answered at once, oldest
\* first: resolve, release the handle, _dispatch again
returning(st, b) ==
  {c \in CallIds : st.calls[c].state = "returning" /\ st.calls[c].base = b
                   /\ st.calls[c].queued}
RECURSIVE settle(_, _)
settle(st, b) ==
  IF returning(st, b) = {} THEN st
  ELSE LET c == CHOOSE x \in returning(st, b) :
                  \A y \in returning(st, b) : x <= y
           st1 == resolveCall(st, c, st.calls[c].result)
       IN settle(dispatch(releaseHandle(st1, b, c), b), b)

triggerDispatch(st, b) == settle(dispatch(st, b), b)

enqueue(st, b, c) ==
  triggerDispatch([st EXCEPT !.queues[b] = Append(@, c),
                             !.calls[c].state = "queued",
                             !.calls[c].queued = TRUE], b)

\* ---------------------------------------------------------- ProcessManager
\* savePids: record the process id of every entry of the live index that
\* has one and whose name has neither "#" nor "@"; a failure of the
\* database is swallowed
savePids(st) ==
  IF st.db # "open" THEN st
  ELSE [st EXCEPT !.pids =
          [n \in Names |->
             IF /\ st.servers[n] # 0 /\ ~includesHash(n) /\ ~includesAt(n)
                /\ st.mgd[st.servers[n]].pid # 0
             THEN st.mgd[st.servers[n]].pid
             ELSE st.pids[n]]]

\* variant: the table is rewritten from the live index
saveLocalConfig_Sync(st) ==
  [st EXCEPT !.store =
     [n \in Names |->
        IF st.servers[n] # 0 /\ ~includesHash(n) /\ ~includesAt(n)
        THEN st.mgd[st.servers[n]].config
        ELSE NoConfig]]

\* saveLocalConfig: upsert the config of every entry of the live index
\* whose name has neither "#" nor "@"
saveLocalConfig(st) ==
  [st EXCEPT !.store =
     [n \in Names |->
        IF st.servers[n] # 0 /\ ~includesHash(n) /\ ~includesAt(n)
        THEN st.mgd[st.servers[n]].config
        ELSE st.store[n]]]

\* variant: the queue is not drained
stopServer_NoDrain(st, n) ==
  LET t == st.reconnectTimers[n]
      st1 == IF t # 0
             THEN [st EXCEPT !.timers = @ \ {t}, !.reconnectTimers[n] = 0]
             ELSE st
      o == st1.servers[n]
  IN IF o = 0 THEN st1
     ELSE LET st2 == [st1 EXCEPT !.mgd[o].status = "stopped",
                                 !.mgd[o].stop = "closing",
                                 !.servers[n] = 0]
          IN IF ~includesAt(n) /\ ~includesHash(n)
             THEN saveLocalConfig(savePids(st2)) ELSE st2

\* stopServer up to its first await (the two closes follow, see StopFinish)
stopServer(st, n) ==
  LET t == st.reconnectTimers[n]
      st1 == IF t # 0
             THEN [st EXCEPT !.timers = @ \ {t}, !.reconnectTimers[n] = 0]
             ELSE st
      o == st1.servers[n]
  IN IF o = 0 THEN st1
     ELSE LET st2 == [st1 EXCEPT !.mgd[o].status = "stopped",
                                 !.mgd[o].stop = "closing",
                                 !.servers[n] = 0]
              \* baseName = name up to "#"; a session name is its own base
              \* and never has a queue
              st3 == IF includesAt(n) THEN st2 ELSE drainServer(st2, n.base)
          IN IF ~includesAt(n) /\ ~includesHash(n)
             THEN saveLocalConfig(savePids(st3)) ELSE st3

\* has the stopServer call that removed object o returned?  (o = 0: the
\* call found no server and returned at once)
stopReturned(st, o) == o = 0 \/ st.mgd[o].stop = "done"

Pow2(k) == IF k = 0 THEN 1 ELSE IF k = 1 THEN 2 ELSE IF k = 2 THEN 4 ELSE 8

\* variant: the attempt counter is not advanced
scheduleReconnect_NoCount(st, o) ==
  LET m == st.mgd[o]
  IN IF m.status = "stopped" THEN st
     ELSE IF m.reconnectAttempts >= AUTO_RECONNECT_MAX_RETRIES THEN st
     ELSE LET delay == AUTO_RECONNECT_BASE_DELAY_MS * Pow2(m.reconnectAttempts)
          IN [st EXCEPT !.timers = @ \cup {o},
                        !.reconnectTimers[m.name] = o,
                        !.mgd[o].hist.episode = Append(@, delay)]

\* _scheduleReconnect up to setTimeout
scheduleReconnect(st, o) ==
  LET m == st.mgd[o]
  IN IF m.status = "stopped" THEN st
     ELSE IF m.reconnectAttempts >= AUTO_RECONNECT_MAX_RETRIES THEN st
     ELSE LET delay == AUTO_RECONNECT_BASE_DELAY_MS * Pow2(m.reconnectAttempts)
          IN [st EXCEPT !.mgd[o].reconnectAttempts = @ + 1,
                        !.timers = @ \cup {o},
                        !.reconnectTimers[m.name] = o,
                        !.mgd[o].hist.episode = Append(@, delay)]

\* variant: the stderr text is not examined
onclose_NoPermanent(st, o) ==
  LET m == st.mgd[o]
  IN IF m.status \notin {"connected", "connecting"} THEN st
     ELSE LET st1 == [st EXCEPT !.mgd[o].status = "error",
                                !.mgd[o].errorMessage =
                                   [kind |-> "closed", lines |-> <<>>]]
          IN IF m.config.type # "STDIO" THEN scheduleReconnect(st1, o)
             ELSE IF includesAt(m.name) THEN st1
             ELSE scheduleReconnect(st1, o)

\* transport.onclose of _spawnStdio / _spawnSSE / _spawnStreamableHTTP
onclose(st, o) ==
  LET m == st.mgd[o]
  IN IF m.status \notin {"connected", "connecting"} THEN st
     ELSE LET st1 == [st EXCEPT !.mgd[o].status = "error",
                                !.mgd[o].errorMessage =
                                   [kind |-> "closed", lines |-> <<>>]]
          IN IF m.config.type # "STDIO" THEN scheduleReconnect(st1, o)
             ELSE IF includesAt(m.name) THEN st1
             ELSE IF isPermanentFailure(m.stderrBuffer)
             THEN [st1 EXCEPT !.mgd[o].errorMessage =
                     [kind |-> "permanent",
                      lines |-> lastLines(m.stderrBuffer, 5)]]
             ELSE scheduleReconnect(st1, o)

\* _doSpawn from the creation of the ManagedServer to the await on connect
createManaged(st, sid, n, cfg, org) ==
  LET o == allocId(st)
      h == IF org.kind = "reconnect" THEN st.mgd[org.old].hist ELSE NoHistory
      own == IF org.kind = "session" THEN st.calls[org.call].sess
             ELSE NoSession
  IN [st EXCEPT !.mgd[o] = [newManaged(n, cfg, h) EXCEPT !.owner = own],
                !.servers[n] = o,
                !.spawns = {p \in @ : p.sid # sid}
                           \cup {spawnRec(sid, n, cfg, org, "connecting", o, 0)}]

\* _doSpawn up to its first await: stop a same-named server first
doSpawn(st, sid, n, cfg, org) ==
  IF st.servers[n] # 0
  THEN LET o == st.servers[n]
           st1 == stopServer(st, n)
       IN [st1 EXCEPT !.spawns = {p \in @ : p.sid # sid}
                        \cup {spawnRec(sid, n, cfg, org, "stopold", 0, o)}]
  ELSE createManaged(st, sid, n, cfg, org)

\* spawnServer up to its first await
spawnServer(st, n, cfg, org) ==
  LET sid == freshSid(st)
  IN IF st.spawnLocks[n] # 0
     THEN [st EXCEPT !.spawns = @ \cup
             {spawnRec(sid, n, cfg, org, "lockwait", 0, 0)}]
     ELSE [doSpawn(st, sid, n, cfg, org) EXCEPT !.spawnLocks[n] = sid]

\* the finally-block of spawnServer
unlock(st, p) ==
  IF st.spawnLocks[p.name] = p.sid
  THEN [st EXCEPT !.spawnLocks[p.name] = 0] ELSE st

\* the finally-block of _handleScaleUp
scaleFinally(st, b) ==
  clearPendingScaleUp([st EXCEPT !.scalingInProgress = @ \ {b}], b)

\* _handleScaleUp after  await this.spawnServer(config)
scaleReturned(st, p) ==
  LET b == p.name.base
  IN IF st.mgd[p.obj].status = "connected"
     THEN scaleFinally(
            triggerDispatch(
              registerInstance(st, b, handle(p.name, p.name.hash)), b), b)
     ELSE IF st.servers[p.name] # 0
     THEN LET old == st.servers[p.name]
              st1 == stopServer(st, p.name)
          IN [st1 EXCEPT !.spawns = @ \cup
                {spawnRec(p.sid, p.name, p.config, p.origin, "scalestop",
                          0, old)}]
     ELSE scaleFinally(st, b)

\* callTool called without the queue: an answer given at once is delivered
directCall(st, n, c) ==
  LET st1 == callTool(st, n, c)
  IN IF st1.calls[c].state = "returning"
     THEN resolveCall(st1, c, st1.calls[c].result)
     ELSE st1

\* the command of a primary is npx/node with "puppeteer" in its arguments
\* (only the configurations of the temp-directory runs say so)
isPuppeteer(cfg) == "browser" \in DOMAIN cfg /\ cfg.browser = "puppeteer"

\* mkdtempSync for session s and the push onto sessionTempDirs
mkdtemp(st, s) ==
  IF \A d \in DirIds : st.tempDirs.disk[d] # NoSession
  THEN [st EXCEPT !.fits = FALSE]
  ELSE LET d == CHOOSE x \in DirIds :
                  /\ st.tempDirs.disk[x] = NoSession
                  /\ \A y \in DirIds : y < x => st.tempDirs.disk[y] # NoSession
       IN [st EXCEPT !.tempDirs.disk[d] = s,
                     !.tempDirs.session[s] = @ \cup {d}]

\* _callStatefulInstance after the while-loop on the session spawn lock, up
\* to  await promise  or to the await inside callTool
afterSessionLock(st, s, b, c) ==
  LET n == sessionName(b, s)
      po == st.servers[primaryName(b)]
  IN IF st.servers[n] # 0 THEN directCall(st, n, c)
     ELSE IF po = 0 THEN resolveCall(st, c, "notfound")
     ELSE IF ~canFork(st) \/ ~canAlloc(st) THEN [st EXCEPT !.fits = FALSE]
     ELSE LET sid == freshSid(st)
              st0 == IF isPuppeteer(st.mgd[po].config)
                     THEN mkdtemp(st, s) ELSE st
              st1 == spawnServer(st0, n, st.mgd[po].config,
                                 origin("session", 0, c))
          IN [st1 EXCEPT !.sessionSpawnLocks[s][b] = sid,
                         !.calls[c].state = "sessspawn"]

\* variant: a caller does not wait for the spawn lock of its pair
callStatefulInstance_NoLock(st, s, b, c) ==
  LET n == sessionName(b, s)
      st1 == [st EXCEPT !.sessionInstances[s].present = TRUE,
                        !.calls[c].mapOk = TRUE]
  IN IF b \notin st1.sessionInstances[s].has \/ st1.servers[n] = 0
     THEN afterSessionLock(st1, s, b, c)
     ELSE directCall(st1, n, c)

\* _callStatefulInstance(b, sessionId = s) for call c up to its first await
callStatefulInstance(st, s, b, c) ==
  LET n == sessionName(b, s)
      st1 == [st EXCEPT !.sessionInstances[s].present = TRUE,
                        !.calls[c].mapOk = TRUE]
  IN IF b \notin st1.sessionInstances[s].has \/ st1.servers[n] = 0
     THEN IF st1.sessionSpawnLocks[s][b] # 0
          THEN [st1 EXCEPT !.calls[c].state = "sesslock"]
          ELSE afterSessionLock(st1, s, b, c)
     ELSE directCall(st1, n, c)

\* the calls of session s that wait in the while-loop on the lock of (s, b)
lockWaiters(st, s, b) ==
  {c \in CallIds : /\ st.calls[c].state = "sesslock"
                   /\ st.calls[c].sess = s /\ st.calls[c].base = b}

\* the spawn promise of (s, b) has settled: the waiters of  todo  run their
\* loop condition again, oldest first
RECURSIVE wakeSession(_, _, _, _)
wakeSession(st, s, b, todo) ==
  IF todo = {} THEN st
  ELSE LET c == CHOOSE x \in todo : \A y \in todo : x <= y
       IN IF st.sessionSpawnLocks[s][b] # 0
          THEN wakeSession(st, s, b, todo \ {c})
          ELSE wakeSession(afterSessionLock(st, s, b, c), s, b, todo \ {c})

\* _callStatefulInstance after  await promise : the finally-block, the
\* status test, sessionMap.set on the map the call looked up, callTool
sessionReturned(st, p) ==
  LET c == p.origin.call
      s == st.calls[c].sess
      b == st.calls[c].base
      st1 == IF st.sessionSpawnLocks[s][b] = p.sid
             THEN [st EXCEPT !.sessionSpawnLocks[s][b] = 0] ELSE st
      st2 == IF st1.mgd[p.obj].status # "connected"
             THEN resolveCall(st1, c, "spawnfailed")
             ELSE directCall(
                    IF st1.calls[c].mapOk
                    THEN [st1 EXCEPT !.sessionInstances[s].has = @ \cup {b}]
                    ELSE st1,
                    p.name, c)
  IN wakeSession(st2, s, b, lockWaiters(st2, s, b))

\* what the caller of spawnServer/_doSpawn does with the returned object
afterSpawn(st, p) ==
  LET o == p.obj
      k == p.origin.kind
  IN IF k = "scale" THEN scaleReturned(st, p)
     ELSE IF k = "declare"
     THEN \* add_managed_server: persist unless the spawn ended in error
          IF st.mgd[o].status = "error" THEN st
          ELSE [st EXCEPT !.store[p.name] = p.config]
     ELSE IF k = "reconnect"
     THEN IF st.mgd[o].status = "connected"
          THEN [st EXCEPT !.mgd[o].reconnectAttempts = 0]
          ELSE [st EXCEPT !.mgd[o].reconnectAttempts =
                             st.mgd[p.origin.old].reconnectAttempts]
     ELSE IF k = "session" THEN sessionReturned(st, p)
     ELSE st

\* _doSpawn returns object p.obj: release the lock, run the caller
returnSpawn(st, p) ==
  LET st1 == [st EXCEPT !.spawns = @ \ {p}]
  IN afterSpawn(unlock(st1, p), p)

\* the transport of object o becomes unusable (the child exits, the peer
\* hangs up, or close() is called on it): onclose fires, once
closeChan(st, o) ==
  IF st.mgd[o].chan # "open" THEN st
  ELSE LET m == st.mgd[o]
           st1 == [st EXCEPT !.mgd[o].chan = "closed",
                     !.mgd[o].closedIn = m.status,
                     !.mgd[o].hist.crashes =
                        IF m.status = "connected"
                        THEN (IF @ < MaxCrashes THEN @ + 1 ELSE @)
                        ELSE IF m.status = "connecting" THEN 0 ELSE @]
       IN onclose(st1, o)


\* variant: the handle is released without another _dispatch
completeCall_NoDispatch(st, c, res) ==
  LET b == st.calls[c].base
      st1 == resolveCall(st, c, res)
  IN IF st.calls[c].queued THEN releaseHandle(st1, b, c) ELSE st1

\* _execute after the executor has answered call c with  res
completeCall(st, c, res) ==
  LET b == st.calls[c].base
      st1 == resolveCall(st, c, res)
  IN IF st.calls[c].queued
     THEN settle(dispatch(releaseHandle(st1, b, c), b), b)
     ELSE st1

\* the tool calls in flight on the client of object o reject, oldest first
inflightOn(st, o) ==
  {c \in CallIds : st.calls[c].state = "inflight" /\ st.calls[c].obj = o}
RECURSIVE failInflight(_, _)
failInflight(st, o) ==
  IF inflightOn(st, o) = {} THEN st
  ELSE LET c == CHOOSE x \in inflightOn(st, o) :
                  \A y \in inflightOn(st, o) : x <= y
       IN failInflight(completeCall(st, c, "error"), o)

\* the catch-block of _doSpawn up to  await managed.transport?.close()
catchSpawn(st, p) ==
  [st EXCEPT !.mgd[p.obj].status = "error",
             !.mgd[p.obj].errorMessage =
                [kind |-> "spawn",
                 lines |-> lastLines(st.mgd[p.obj].stderrBuffer, 10)],
             !.mgd[p.obj].hist.crashes = 0,
             !.spawns = (@ \ {p}) \cup {[p EXCEPT !.pc = "cleanup"]}]

\* the spawn that awaits a request on the client of object o sees it reject
failSpawn(st, o) ==
  LET ps == {p \in st.spawns : p.obj = o /\ p.pc \in {"connecting", "listing"}}
  IN IF ps = {} THEN st
     ELSE LET p == CHOOSE q \in ps : TRUE
          IN IF p.pc = "connecting" THEN catchSpawn(st, p)
             ELSE returnSpawn(saveLocalConfig(savePids(st)), p)

\* ----------------------------------------------------------------- actions
Init ==
  /\ mgd = [o \in ObjIds |-> NoManaged]
  /\ servers = [n \in Names |-> 0]
  /\ spawns = {}
  /\ spawnLocks = [n \in Names |-> 0]
  /\ timers = {}
  /\ reconnectTimers = [n \in Names |-> 0]
  /\ store = [n \in Names |-> NoConfig]
  /\ queues = [b \in Bases |-> <<>>]
  /\ instances = [b \in Bases |-> <<>>]
  /\ pendingScaleUps = {}
  /\ scalingInProgress = {}
  /\ calls = [c \in CallIds |-> NoCall]
  /\ nextCall = 0
  /\ dispatched = [b \in Bases |-> <<>>]
  /\ sessions = [s \in SessionIds |-> "new"]
  /\ sessionInstances = [s \in SessionIds |-> NoSessionMap]
  /\ sessionSpawnLocks = [s \in SessionIds |-> [b \in Bases |-> 0]]
  /\ releases = {}
  /\ reply = NoReply
  /\ db = "open"
  /\ pids = [n \in Names |-> 0]
  /\ procs = [k \in OldPids |-> "dead"]
  /\ boot = "running"
  /\ response = NoResponse
  /\ health = NoHealth
  /\ tempDirs = NoTemp
  /\ profiles = NoProfiles
  /\ teardowns = NoTeardowns

\* The operator sends one management request (add_managed_server,
\* stop_server) at a time: the previous one has been answered.
ManagementKinds == {"declare", "update", "remove", "deactivate"}
operatorIdle ==
  /\ \A p \in spawns : p.origin.kind \notin ManagementKinds
  /\ \A o \in ObjIds : mgd[o].stop # "closing"

\* add_managed_server(name = b, config)
Declare(b, cfg) ==
  /\ operatorIdle
  /\ canFork(Cur) /\ canAlloc(Cur)
  /\ Commit(spawnServer(Cur, primaryName(b), cfg, origin("declare", 0, 0)))

\* add_managed_server for a name that is not in the live index
DeclareOnce(b, cfg) ==
  /\ servers[primaryName(b)] = 0
  /\ Declare(b, cfg)

\* a spawnServer call that waited for the lock of its name goes on
SpawnProceed(p) ==
  /\ p.pc = "lockwait"
  /\ spawnLocks[p.name] = 0
  /\ canAlloc(Cur)
  /\ Commit([doSpawn(Cur, p.sid, p.name, p.config, p.origin)
               EXCEPT !.spawnLocks[p.name] = p.sid])

\* _doSpawn after  await this.stopServer(config.name)
SpawnAfterStop(p) ==
  /\ p.pc = "stopold"
  /\ stopReturned(Cur, p.wait)
  /\ canAlloc(Cur)
  /\ Commit(createManaged(Cur, p.sid, p.name, p.config, p.origin))

\* client.connect(transport) resolves
ConnectOk(p) ==
  /\ p.pc = "connecting"
  /\ mgd[p.obj].chan = "open"
  /\ Commit([Cur EXCEPT !.mgd[p.obj].status = "connected",
                        !.mgd[p.obj].reconnectAttempts = 0,
                        !.mgd[p.obj].hist.episode = <<>>,
                        !.mgd[p.obj].hist.connected = TRUE,
                        !.mgd[p.obj].pid =
                           IF p.config.type = "STDIO" THEN ChildPid
                           ELSE 0,
                        !.spawns = (@ \ {p}) \cup {[p EXCEPT !.pc = "listing"]}])

\* client.connect(transport) rejects or the 30 s connect timer fires: the
\* catch-block of _doSpawn up to  await managed.transport?.close()
ConnectFail(p) ==
  /\ p.pc = "connecting"
  /\ Commit(catchSpawn(Cur, p))

\* the initial listTools resolves or rejects; _doSpawn saves and returns
ListDone(p) ==
  /\ p.pc = "listing"
  /\ Commit(returnSpawn(saveLocalConfig(savePids(Cur)), p))

\* the close of the catch-block is over; _doSpawn returns the failed object
CleanupDone(p) ==
  /\ p.pc = "cleanup"
  /\ LET o == p.obj
         st1 == IF mgd[o].transport THEN closeChan(Cur, o) ELSE Cur
         st2 == [st1 EXCEPT !.mgd[o].client = FALSE,
                            !.mgd[o].transport = FALSE]
     IN Commit(returnSpawn(st2, p))

\* the environment: the transport of object o closes.  onclose runs, then
\* the requests pending on the client reject: a connect or an initial
\* listTools of the spawn first, then the tool calls in flight
TransportClose(o) ==
  /\ mgd[o].chan = "open"
  /\ mgd[o].stop # "closing"
  /\ Len(mgd[o].hist.episode) < MaxSched
  /\ Commit(failInflight(failSpawn(closeChan(Cur, o), o), o))

\* the "data" handler of the stderr stream of object o, for one line
stderrData(st, o, line) ==
  LET pushed == Append(st.mgd[o].stderrBuffer, line)
  IN [st EXCEPT !.mgd[o].stderrBuffer =
        IF Len(pushed) > MAX_STDERR_LINES THEN Tail(pushed) ELSE pushed]

\* the child of object o writes a line to stderr
StderrData(o, line) ==
  /\ mgd[o].config.type = "STDIO"
  /\ mgd[o].chan = "open"
  /\ servers[mgd[o].name] = o
  /\ Len(mgd[o].stderrBuffer) < MaxStderr
  /\ Commit(stderrData(Cur, o, line))

\* the reconnect timer of object o fires
TimerFire(o) ==
  /\ o \in timers
  /\ canFork(Cur) /\ canAlloc(Cur)
  /\ LET m == mgd[o]
         st1 == [Cur EXCEPT !.timers = @ \ {o}, !.reconnectTimers[m.name] = 0]
     IN IF m.status = "stopped" \/ servers[m.name] # o
        THEN Commit(st1)
        ELSE Commit(createManaged([st1 EXCEPT !.servers[m.name] = 0],
                                  freshSid(st1), m.name, m.config,
                                  origin("reconnect", o, 0)))

\* update_server(name = n, stateful = sf) up to its first await: merge the
\* field into the config of the live server (else the stored one), upsert
\* it, and stop the server if it is running
UpdateParams == {"undefined", "true", "false"}
mergeStateful(cfg, sf) ==
  IF sf = "undefined" THEN cfg ELSE [cfg EXCEPT !.stateful = (sf = "true")]

updateServer(st, n, sf) ==
  LET o == st.servers[n]
      old == IF o # 0 THEN st.mgd[o].config ELSE st.store[n]
  IN IF old = NoConfig THEN st
     ELSE LET config == mergeStateful(old, sf)
              st1 == [st EXCEPT !.store[n] = config]
          IN IF o = 0 THEN st1
             ELSE LET st2 == stopServer(st1, n)
                  IN [st2 EXCEPT !.spawns = @ \cup
                        {spawnRec(freshSid(st2), n, config,
                                  origin("update", 0, 0), "updatestop", 0, o)}]

UpdateServer(n, sf) ==
  /\ operatorIdle
  /\ servers[n] # 0 \/ store[n] # NoConfig
  /\ canFork(Cur)
  /\ Commit(updateServer(Cur, n, sf))

\* update_server after  await processManager.stopServer(params.name)
UpdateAfterStop(p) ==
  /\ p.pc = "updatestop"
  /\ stopReturned(Cur, p.wait)
  /\ canAlloc(Cur)
  /\ Commit(spawnServer([Cur EXCEPT !.spawns = @ \ {p}], p.name, p.config,
                        p.origin))

\* the servers of the profile of the model, in the order of its list
ProfileServers == <<primaryName("b")>>

\* the for-loop of deactivate_profile from position i on, up to the next
\*  await processManager.stopServer(name)
RECURSIVE deactivateFrom(_, _, _)
deactivateFrom(st, sid, i) ==
  IF i > Len(ProfileServers) THEN st
  ELSE LET n == ProfileServers[i]
           o == st.servers[n]
       IN IF o = 0 THEN deactivateFrom(st, sid, i + 1)
          ELSE [stopServer(st, n) EXCEPT !.spawns = @ \cup
                  {spawnRec(sid, n, NoConfig, origin("deactivate", 0, i),
                            "deactivatestop", 0, o)}]

\* deactivate_profile(profile_name)
DeactivateProfile ==
  /\ operatorIdle
  /\ canFork(Cur)
  /\ Commit(deactivateFrom(Cur, freshSid(Cur), 1))

\* deactivate_profile after  await processManager.stopServer(name)
DeactivateNext(p) ==
  /\ p.pc = "deactivatestop"
  /\ stopReturned(Cur, p.wait)
  /\ Commit(deactivateFrom([Cur EXCEPT !.spawns = @ \ {p}], p.sid,
                            p.origin.call + 1))

\* variant: the row of the store is kept
removeFinish_KeepRow(st, n) ==
  [st EXCEPT !.reply = [tool |-> "remove", name |-> n, isError |-> FALSE]]

\* remove_managed_server from db.removeServer to its return
removeFinish(st, n) ==
  [st EXCEPT !.store[n] = NoConfig,
             !.reply = [tool |-> "remove", name |-> n, isError |-> FALSE]]

\* remove_managed_server(name = n) up to its first await; NoName is the
\* empty string
removeManagedServer(st, sid, n) ==
  IF n = NoName
  THEN [st EXCEPT !.reply = [tool |-> "remove", name |-> n, isError |-> TRUE]]
  ELSE IF st.servers[n] # 0
  THEN [stopServer(st, n) EXCEPT !.spawns = @ \cup
          {spawnRec(sid, n, NoConfig, origin("remove", 0, 0), "removestop",
                    0, st.servers[n])}]
  ELSE removeFinish(st, n)

\* Removals may overlap each other; they do not overlap the other
\* management requests.
RemoveServer(n) ==
  /\ \A p \in spawns : p.origin.kind \notin ManagementKinds \ {"remove"}
  /\ canFork(Cur)
  /\ Commit(removeManagedServer(Cur, freshSid(Cur), n))

\* remove_managed_server after  await processManager.stopServer(params.name)
RemoveAfterStop(p) ==
  /\ p.pc = "removestop"
  /\ stopReturned(Cur, p.wait)
  /\ Commit(removeFinish([Cur EXCEPT !.spawns = @ \ {p}], p.name))

\* stop_server(name = n)
StopServerTool(n) ==
  /\ operatorIdle
  /\ servers[n] # 0
  /\ Commit(stopServer(Cur, n))

\* variant: the object is cleared without its transport being closed
StopFinish_NoClose(o) ==
  /\ mgd[o].stop = "closing"
  /\ LET st1 == failInflight(failSpawn(Cur, o), o)
     IN Commit([st1 EXCEPT !.mgd[o].client = FALSE,
                           !.mgd[o].transport = FALSE,
                           !.mgd[o].pid = 0,
                           !.mgd[o].stop = "done"])

\* stopServer after its first await: client.close() and transport.close()
\* close the transport (onclose fires, pending requests reject), then the
\* object is cleared
StopFinish(o) ==
  /\ mgd[o].stop = "closing"
  /\ LET st1 == failInflight(failSpawn(closeChan(Cur, o), o), o)
     IN Commit([st1 EXCEPT !.mgd[o].client = FALSE,
                           !.mgd[o].transport = FALSE,
                           !.mgd[o].pid = 0,
                           !.mgd[o].stop = "done"])

\* callToolQueued, shared pool path
callToolQueued(st, b, c) ==
  LET st1 == IF st.instances[b] = <<>> /\ st.servers[primaryName(b)] # 0
             THEN registerInstance(st, b, handle(primaryName(b), 0))
             ELSE st
  IN enqueue(st1, b, c)

\* call_server_tool(server_name = b) in HTTP mode, no stateful primary
submit(b) ==
  LET c == nextCall + 1
  IN Commit(callToolQueued(
              [Cur EXCEPT !.nextCall = c, !.calls[c].base = b], b, c))

CallQueued(b) ==
  /\ nextCall < MaxCalls
  /\ submit(b)

CallQueuedFew(b) ==
  /\ nextCall < MaxFewCalls
  /\ submit(b)

CallQueuedLong(b) ==
  /\ MaxCalls <= nextCall
  /\ nextCall < MaxCalls + MaxExtraCalls
  /\ submit(b)

\* the executor answers call c: the worker's result arrives, or the
\* TOOL_CALL_TIMEOUT_MS timer of callTool fires
CompleteCall(c) ==
  /\ calls[c].state = "inflight"
  /\ Commit(completeCall(Cur, c, "returned"))

\* variant: a timeout marks the server as failed and schedules a reconnect
callTimedOut_Poison(st, c) ==
  LET o == st.calls[c].obj
      st1 == completeCall(st, c, "timeout")
  IN scheduleReconnect([st1 EXCEPT !.mgd[o].status = "error"], o)

\* callTool: the TOOL_CALL_TIMEOUT_MS timer wins the race; the catch-block
\* returns the error result
callTimedOut(st, c) == completeCall(st, c, "timeout")

CallTimeout(c) ==
  /\ calls[c].state = "inflight"
  /\ Commit(callTimedOut(Cur, c))

\* time passes for the oldest waiting request of b:  aged  1 means it has
\* waited SCALE_UP_WAIT_MS, 2 that it has waited longer than
\* QUEUE_REQUEST_TTL_MS
Age(b) ==
  /\ queues[b] # <<>>
  /\ calls[Head(queues[b])].aged < 2
  /\ Commit([Cur EXCEPT !.calls[Head(queues[b])].aged = @ + 1])

\* variant: the expired request is rejected and stays in the queue
expireHead_KeepQueued(st, b) ==
  rejectCall([st EXCEPT !.calls[Head(st.queues[b])].aged = 0],
             Head(st.queues[b]), "ttl")

\* queue.shift() of an expired request and its reject
expireHead(st, b) ==
  rejectCall([st EXCEPT !.queues[b] = Tail(@)], Head(st.queues[b]), "ttl")

RECURSIVE expireStaleRequests(_, _)
expireStaleRequests(st, b) ==
  IF st.queues[b] # <<>> /\ st.calls[Head(st.queues[b])].aged = 2
  THEN expireStaleRequests(expireHead(st, b), b)
  ELSE st

\* smallest index >= 1 that no registered handle of b carries
nextIndex(st, b) ==
  LET used == {st.instances[b][i].index : i \in 1..Len(st.instances[b])}
  IN CHOOSE k \in 1..(MAX_SERVER_INSTANCES + 1) :
       k \notin used /\ \A j \in 1..(k - 1) : j \in used

\* does _handleScaleUp(b) go on to spawn?
scaleAdmitted(st, b) ==
  LET o == st.servers[primaryName(b)]
  IN /\ b \notin st.scalingInProgress
     /\ Len(st.instances[b]) < MAX_SERVER_INSTANCES
     /\ o # 0
     /\ st.mgd[o].config.type = "STDIO"
     /\ ~st.mgd[o].config.stateful

\* _handleScaleUp up to  await this.spawnServer(config)
handleScaleUp(st, b) ==
  IF b \in st.scalingInProgress THEN st
  ELSE IF ~scaleAdmitted(st, b) THEN clearPendingScaleUp(st, b)
  ELSE spawnServer([st EXCEPT !.scalingInProgress = @ \cup {b}],
                   scaledName(b, nextIndex(st, b)),
                   st.mgd[st.servers[primaryName(b)]].config,
                   origin("scale", 0, 0))

\* variant: the pending flag is not tested
scaleWanted_NoPending(st, b) ==
  /\ st.queues[b] # <<>>
  /\ st.calls[Head(st.queues[b])].aged >= 1
  /\ st.instances[b] # <<>>
  /\ \A i \in 1..Len(st.instances[b]) : st.instances[b][i].busy

\* does _checkScaleUp signal for b?
scaleWanted(st, b) ==
  /\ st.queues[b] # <<>>
  /\ b \notin st.pendingScaleUps
  /\ st.calls[Head(st.queues[b])].aged >= 1
  /\ st.instances[b] # <<>>
  /\ \A i \in 1..Len(st.instances[b]) : st.instances[b][i].busy

\* _checkScaleUp for the queue of b: pendingScaleUps.add, onScaleUp
checkScaleUp(st, b) ==
  IF scaleWanted(st, b)
  THEN handleScaleUp([st EXCEPT !.pendingScaleUps = @ \cup {b},
                                !.response.signal = @ \cup {b}], b)
  ELSE st

\* the 1 s interval of the RequestQueue
Tick(b) ==
  LET st1 == expireStaleRequests(Cur, b)
  IN /\ (scaleWanted(st1, b) /\ scaleAdmitted(st1, b))
          => (canFork(st1) /\ canAlloc(st1))
     /\ Commit(checkScaleUp(st1, b))

\* _handleScaleUp after  await this.stopServer(internalName)
ScaleStopDone(p) ==
  /\ p.pc = "scalestop"
  /\ stopReturned(Cur, p.wait)
  /\ Commit(scaleFinally([Cur EXCEPT !.spawns = @ \ {p}], p.name.base))

\* the idle check stops the server named n, if there is one (reaped records
\* that it was the idle check that stopped the object)
reapServer(st, n) ==
  LET o == st.servers[n]
  IN IF o = 0 THEN stopServer(st, n)
     ELSE stopServer([st EXCEPT !.mgd[o].reaped = TRUE], n)

\* variant: the busy flag of the handle is not tested
reapSkips_NoBusy(h, idle) ==
  \/ h.index = 0
  \/ includesAt(h.internalName)
  \/ h.internalName \notin idle

\* the tests of _checkIdleInstances that make it pass over the handle h;
\* idle is the set of names whose handle has been idle for IDLE_KILL_MS
reapSkips(h, idle) ==
  \/ h.index = 0
  \/ h.busy
  \/ includesAt(h.internalName)
  \/ h.internalName \notin idle

\* the loop of _checkIdleInstances over a snapshot of the handles of b
RECURSIVE reapFrom(_, _, _, _)
reapFrom(st, b, list, idle) ==
  IF list = <<>> THEN st
  ELSE LET h == Head(list)
       IN IF reapSkips(h, idle)
          THEN reapFrom(st, b, Tail(list), idle)
          ELSE reapFrom(reapServer(unregisterInstance(st, h.internalName, b),
                                   h.internalName),
                        b, Tail(list), idle)

\* the handles of b that the idle check may find idle: lastActiveAt is the
\* time of the last dispatch or release, so any handle may be that old
idleHandles(b) ==
  {instances[b][i].internalName : i \in 1..Len(instances[b])}

\* the 10 s interval of the idle check
Reap(b, idle) ==
  /\ idle # {}
  /\ \E n \in Names : n.base = b /\ ~includesAt(n) /\ servers[n] # 0
  /\ Commit(reapFrom(Cur, b, instances[b], idle))

\* ------------------------------------------------------- health watchdog
\* a set of object ids as a sequence, in increasing order
RECURSIVE seqOf(_)
seqOf(S) ==
  IF S = {} THEN <<>>
  ELSE LET o == CHOOSE x \in S : \A y \in S : x <= y
       IN <<o>> \o seqOf(S \ {o})

\* the servers _healthCheck probes: CONNECTED, with a client, and a name
\* without "#" and "@"
healthTargets(st) ==
  {o \in ObjIds :
     \E n \in Names :
       /\ st.servers[n] = o
       /\ st.mgd[o].status = "connected" /\ st.mgd[o].client
       /\ ~includesHash(n) /\ ~includesAt(n)}

\* the for-loop of _healthCheck goes on to the next server of its snapshot
\* and awaits the listTools of that one
healthNext(st, rest) ==
  IF rest = <<>> THEN [st EXCEPT !.health = NoHealth]
  ELSE [st EXCEPT !.health = [probing |-> Head(rest), rest |-> Tail(rest)]]

\* variant: the server is stopped and not spawned again
restartServer_StopOnly(st, n) ==
  LET o == st.servers[n]
  IN IF o = 0 THEN st ELSE stopServer(st, n)

\* restartServer(n) up to  await this.stopServer(name)
restartServer(st, n) ==
  LET o == st.servers[n]
  IN IF o = 0 THEN st
     ELSE LET st1 == stopServer(st, n)
          IN [st1 EXCEPT !.spawns = @ \cup
                {spawnRec(freshSid(st1), n, st.mgd[o].config,
                          origin("restart", 0, 0), "restartstop", 0, o)}]

\* the health interval fires
HealthCheck ==
  /\ health = NoHealth
  /\ healthTargets(Cur) # {}
  /\ Commit(healthNext(Cur, seqOf(healthTargets(Cur))))

\* the listTools of the probe resolves in time
ProbeOk ==
  /\ health.probing # 0
  /\ mgd[health.probing].client /\ mgd[health.probing].chan = "open"
  /\ Commit(healthNext(Cur, health.rest))

\* the listTools of the probe rejects or HEALTH_CHECK_TIMEOUT_MS passes
ProbeFail ==
  /\ health.probing # 0
  /\ canFork(Cur)
  /\ Commit(healthNext(restartServer(Cur, mgd[health.probing].name),
                       health.rest))

\* restartServer after  await this.stopServer(name)
RestartAfterStop(p) ==
  /\ p.pc = "restartstop"
  /\ stopReturned(Cur, p.wait)
  /\ canAlloc(Cur)
  /\ Commit(spawnServer([Cur EXCEPT !.spawns = @ \ {p}], p.name, p.config,
                        p.origin))

\* ---------------------------------------------------------- session layer

\* call_server_tool(server_name = b) of session s in HTTP mode:
\* callToolQueued with a session id
CallSession(s, b) ==
  /\ sessions[s] = "open"
  /\ nextCall < MaxFewCalls
  /\ LET c == nextCall + 1
         po == servers[primaryName(b)]
         st1 == [Cur EXCEPT !.nextCall = c, !.calls[c].base = b,
                            !.calls[c].sess = s]
     IN IF po # 0 /\ mgd[po].config.stateful
        THEN Commit(callStatefulInstance(st1, s, b, c))
        ELSE Commit(callToolQueued(st1, b, c))

\* the for-loop of releaseSessionInstances over the bases of  todo
RECURSIVE stopMapped(_, _, _, _)
stopMapped(st, s, todo, waits) ==
  IF todo = {} THEN [st |-> st, waits |-> waits]
  ELSE LET b == CHOOSE x \in todo : TRUE
           o == st.servers[sessionName(b, s)]
       IN IF o = 0 THEN stopMapped(st, s, todo \ {b}, waits)
          ELSE stopMapped(stopServer(st, sessionName(b, s)), s, todo \ {b},
                          waits \cup {o})

\* sessionInstances.delete(s): the calls of s that are under way keep the
\* map object they looked up, which is no longer the one of the table
deleteSessionMap(st, s) ==
  [st EXCEPT !.sessionInstances[s] = NoSessionMap,
             !.calls = [c \in CallIds |->
                          IF @[c].sess = s THEN [@[c] EXCEPT !.mapOk = FALSE]
                          ELSE @[c]]]

\* the end of releaseSessionInstances: rmSync of the directories recorded
\* for s, sessionTempDirs.delete(s)
removeTempDirs(st, s) ==
  [st EXCEPT !.tempDirs.disk =
               [d \in DirIds |-> IF d \in st.tempDirs.session[s]
                                 THEN NoSession ELSE @[d]],
             !.tempDirs.session[s] = {}]

\* releaseSessionInstances(s) up to  await Promise.allSettled(stopPromises)
releaseSessionInstances(st, s) ==
  LET m == st.sessionInstances[s]
  IN IF ~m.present \/ m.has = {} THEN st
     ELSE LET r == stopMapped(st, s, m.has, {})
          IN IF r.waits = {} THEN removeTempDirs(deleteSessionMap(r.st, s), s)
             ELSE [r.st EXCEPT !.releases = @ \cup
                                   {[sess |-> s, waits |-> r.waits]}]

\* variant: the session is torn down whether it is in the index or not
cleanupSession_NoGuard(st, s) ==
  releaseSessionInstances(
    [st EXCEPT !.sessions[s] = "closed",
               !.teardowns[s].calls = upTo2(@),
               !.teardowns[s].deleted = upTo2(@),
               !.teardowns[s].closed = upTo2(@),
               !.teardowns[s].released = upTo2(@)], s)

\* cleanupSession(s): DELETE, transport close, connect failure or the idle
\* sweep
cleanupSession(st, s) ==
  IF st.sessions[s] # "open"
  THEN [st EXCEPT !.teardowns[s].calls = upTo2(@)]
  ELSE releaseSessionInstances(
         [st EXCEPT !.sessions[s] = "closed",
                    !.teardowns[s].calls = upTo2(@),
                    !.teardowns[s].deleted = upTo2(@),
                    !.teardowns[s].closed = upTo2(@),
                    !.teardowns[s].released = upTo2(@)], s)

Teardown(s) ==
  /\ sessions[s] = "open"
  /\ Commit(cleanupSession(Cur, s))

\* releaseSessionInstances after  await Promise.allSettled(stopPromises)
ReleaseDone(r) ==
  /\ \A o \in r.waits : stopReturned(Cur, o)
  /\ Commit(removeTempDirs(
              deleteSessionMap([Cur EXCEPT !.releases = @ \ {r}], r.sess),
              r.sess))

\* ------------------------------------------------------------- HTTP layer
Methods == {"GET", "POST", "DELETE", "PUT"}

\* sessions.size
sessionsSize(st) == Cardinality({s \in SessionIds : st.sessions[s] = "open"})

\* res.writeHead(status) and res.end, or the answer of a session transport
respond(st, status, created, method, h) ==
  [st EXCEPT !.response = [status |-> status, session |-> created,
                           method |-> method, supplied |-> h,
                           signal |-> {}]]

\* variant: the number of sessions is not tested
postNewSession_NoCap(st, h, fresh) ==
  IF fresh = NoSession THEN [st EXCEPT !.fits = FALSE]
  ELSE respond([st EXCEPT !.sessions[fresh] = "open"],
               "transport", fresh, "POST", h)

\* handleRequest, a POST on /mcp without a valid session: the test of the
\* cap, createSession with the id  fresh  that randomUUID() returns, and
\* sessions.set; the transport of the new session answers the request
postNewSession(st, h, fresh) ==
  IF sessionsSize(st) >= MAX_SESSIONS
  THEN respond(st, "503", NoSession, "POST", h)
  ELSE IF fresh = NoSession THEN [st EXCEPT !.fits = FALSE]
  ELSE respond([st EXCEPT !.sessions[fresh] = "open"],
               "transport", fresh, "POST", h)

\* variant: a GET or DELETE without a session id is answered like one with
\* an unknown id
handleRequest_NoMissing(st, method, h, fresh) ==
  IF h # NoSession /\ st.sessions[h] = "open"
  THEN respond(IF method = "DELETE" THEN cleanupSession(st, h) ELSE st,
               "transport", NoSession, method, h)
  ELSE IF method \in {"GET", "DELETE"}
  THEN respond(st, "404", NoSession, method, h)
  ELSE IF method = "POST" THEN postNewSession(st, h, fresh)
  ELSE respond(st, "405", NoSession, method, h)

\* handleRequest for the URL /mcp with the Mcp-Session-Id header h
\* (NoSession: no header).  A request of an existing session goes to the
\* transport of the session; a DELETE makes that transport close, and its
\* onclose calls cleanupSession.
handleRequest(st, method, h, fresh) ==
  IF h # NoSession /\ st.sessions[h] = "open"
  THEN respond(IF method = "DELETE" THEN cleanupSession(st, h) ELSE st,
               "transport", NoSession, method, h)
  ELSE IF method \in {"GET", "DELETE"}
  THEN IF h # NoSession THEN respond(st, "404", NoSession, method, h)
       ELSE respond(st, "400", NoSession, method, h)
  ELSE IF method = "POST" THEN postNewSession(st, h, fresh)
  ELSE respond(st, "405", NoSession, method, h)

\* randomUUID(): an id that has never been a session id and that is not the
\* one the request carries (NoSession when the ids of the model are used up)
freshIds(h) ==
  LET ids == {s \in SessionIds : sessions[s] = "new" /\ s # h}
  IN IF ids = {} THEN {NoSession} ELSE ids

\* an initialize request without a session id opens the session with id s
OpenSession(s) ==
  /\ sessions[s] = "new"
  /\ sessionsSize(Cur) < MAX_SESSIONS
  /\ Commit(handleRequest(Cur, "POST", NoSession, s))

\* a request on /mcp arrives
HttpRequest(method, h) ==
  \E fresh \in freshIds(h) : Commit(handleRequest(Cur, method, h, fresh))

\* ------------------------------------------------------ pool specification
PoolConfigs == {[type |-> "STDIO", stateful |-> FALSE]}

NextPool ==
  \/ \E b \in Bases, cfg \in PoolConfigs : Declare(b, cfg)
  \/ \E p \in spawns : SpawnAfterStop(p)
  \/ \E p \in spawns : ConnectOk(p)
  \/ \E p \in spawns : ConnectFail(p)
  \/ \E p \in spawns : ListDone(p)
  \/ \E p \in spawns : CleanupDone(p)
  \/ \E b \in Bases : StopServerTool(primaryName(b))
  \/ \E o \in ObjIds : StopFinish(o)
  \/ \E b \in Bases : CallQueued(b)
  \/ \E c \in CallIds : CompleteCall(c)
  \/ \E b \in Bases : Age(b)
  \/ \E b \in Bases : Tick(b)
  \/ \E p \in spawns : ScaleStopDone(p)
  \/ \E b \in Bases : \E idle \in SUBSET idleHandles(b) : Reap(b, idle)

SpecPool == Init /\ [][NextPool]_vars

inflightCalls(o) ==
  {c \in CallIds : calls[c].state = "inflight" /\ calls[c].obj = o}

\* The timers of the code fire.  Time passes for a waiting request
\* (WF of Age); the 1 s interval of the queue runs while the oldest request
\* is stale (WF of Tick); a call in flight is answered, at the latest by
\* the TOOL_CALL_TIMEOUT_MS timer of callTool (WF of CompleteCall).  For
\* Tick and CompleteCall the condition WF_vars(A) is written out as
\* []<>~E \/ []<><<A>>_vars  with E a state predicate that implies
\* ENABLED <<A>>_vars.
headStale(b) == queues[b] # <<>> /\ calls[Head(queues[b])].aged = 2

FairPool ==
  /\ \A b \in Bases : WF_vars(Age(b))
  /\ \A b \in Bases : []<>(~headStale(b)) \/ []<><<Tick(b)>>_vars
  /\ \A c \in CallIds :
       []<>(calls[c].state # "inflight") \/ []<><<CompleteCall(c)>>_vars

SpecPoolFair == SpecPool /\ FairPool

\* The 10 s interval of the idle check runs, and a handle that is left
\* alone gets older than IDLE_KILL_MS: the idle check with every handle of
\* b old is taken again and again while it has a handle to reap.
reapable(b) ==
  /\ \E n \in Names : n.base = b /\ ~includesAt(n) /\ servers[n] # 0
  /\ \E i \in 1..Len(instances[b]) :
       ~reapSkips(instances[b][i], idleHandles(b))

FairReap ==
  \A b \in Bases :
    []<>(~reapable(b)) \/ []<><<Reap(b, idleHandles(b))>>_vars

SpecPoolReap == SpecPoolFair /\ FairReap

\* C21: no scaled instance stays in the live index, CONNECTED and without
\* a call in flight, for ever
C21_IdleScaledReaped ==
  \A n \in Names :
    includesHash(n) =>
      ~<>[](/\ servers[n] # 0
            /\ mgd[servers[n]].status = "connected"
            /\ inflightCalls(servers[n]) = {})

\* the pool with one more call, enough for two scale-ups around a restart
NextPoolLong ==
  \/ NextPool
  \/ \E b \in Bases : CallQueuedLong(b)

SpecPoolLong == Init /\ [][NextPoolLong]_vars

\* a scaled worker crashes
CrashScaled(o) ==
  /\ includesHash(mgd[o].name)
  /\ mgd[o].hist.crashes = 0
  /\ TransportClose(o)

\* the pool with crashing scaled workers and a primary that is declared
\* again with another transport
ScaleConfigs ==
  {[type |-> "STDIO", stateful |-> FALSE], [type |-> "SSE", stateful |-> FALSE]}

NextScale ==
  \/ \E b \in Bases, cfg \in ScaleConfigs : Declare(b, cfg)
  \/ \E p \in spawns : SpawnAfterStop(p)
  \/ \E p \in spawns : ConnectOk(p)
  \/ \E p \in spawns : ConnectFail(p)
  \/ \E p \in spawns : ListDone(p)
  \/ \E p \in spawns : CleanupDone(p)
  \/ \E o \in ObjIds : CrashScaled(o)
  \/ \E o \in ObjIds : TimerFire(o)
  \/ \E o \in ObjIds : StopFinish(o)
  \/ \E b \in Bases : CallQueued(b)
  \/ \E c \in CallIds : CompleteCall(c)
  \/ \E b \in Bases : Age(b)
  \/ \E b \in Bases : Tick(b)
  \/ \E p \in spawns : ScaleStopDone(p)

SpecScale == Init /\ [][NextScale]_vars


\* C3: every worker instance has at most one tool call in flight
C3_OneCallInFlight ==
  \A o \in ObjIds : Cardinality(inflightCalls(o)) <= 1

\* C4: for each base the calls are handed to workers in the order in which
\* they were enqueued (call ids are given in submission order)
C4_FifoDispatch ==
  \A b \in Bases : \A i, j \in 1..Len(dispatched[b]) :
    i < j => dispatched[b][i] < dispatched[b][j]

C4_Witness ==
  \E b \in Bases :
    /\ Len(dispatched[b]) >= 2
    /\ queues[b] # <<>>

\* stopServer runs on the primary of b in this step
stopRuns(b) ==
  LET o == servers[primaryName(b)]
  IN o # 0 /\ mgd[o].status # "stopped" /\ mgd'[o].status = "stopped"

\* C5: when stop(B) runs, every call waiting in the queue of B is rejected
\* with the server-stopped error and none is left in the queue
C5_StopRejectsQueued ==
  [][\A b \in Bases : stopRuns(b) =>
        /\ queues'[b] = <<>>
        /\ \A c \in CallIds :
             (calls[c].state = "queued" /\ calls[c].base = b) =>
             (calls'[c].state = "done" /\ calls'[c].result = "stopped")]_vars

C5_Witness ==
  \E b \in Bases, c \in CallIds, o \in ObjIds :
    /\ calls[c].state = "done" /\ calls[c].result = "stopped"
    /\ calls[c].base = b
    /\ servers[primaryName(b)] = 0
    /\ mgd[o].name = primaryName(b) /\ mgd[o].stop = "closing"
    /\ scalingInProgress = {}

\* C6: every call submitted through callToolQueued is eventually settled
C6_EveryCallResolves ==
  \A c \in CallIds :
    (calls[c].state \in {"queued", "inflight"}) ~> (calls[c].state = "done")

C6_Witness ==
  \E c, d \in CallIds :
    /\ calls[c].state = "done" /\ calls[c].result = "ttl"
    /\ calls[d].state = "inflight"

\* the instances of the pool of b that have a worker
poolInstances(b) ==
  {n \in Names : /\ n.base = b /\ ~includesAt(n) /\ servers[n] # 0
                 /\ mgd[servers[n]].status \in {"connecting", "connected"}}

\* C32: a scale-up of b spawns b#k with k the smallest positive integer that
\* no instance of the pool of b in the live index carries: the name of an
\* instance that is still in the live index is never used again
C32_FreshScaledName ==
  [][\A p \in spawns' :
       (p.origin.kind = "scale" /\ p.sid \notin {q.sid : q \in spawns}) =>
         /\ servers[p.name] = 0
         /\ p.name.hash >= 1
         /\ \A j \in 1..(p.name.hash - 1) : servers[scaledName(p.name.base, j)] # 0]_vars

\* C7: the pool of a base never has more than max_pool live instances
C7_PoolSizeBound ==
  \A b \in Bases : Cardinality(poolInstances(b)) <= MAX_SERVER_INSTANCES

\* ------------------------------------------------- reconnect specification
ReconnectConfigs == {[type |-> "STDIO", stateful |-> FALSE]}

NextReconnect ==
  \/ \E b \in Bases, cfg \in ReconnectConfigs : Declare(b, cfg)
  \/ \E p \in spawns : SpawnAfterStop(p)
  \/ \E p \in spawns : ConnectOk(p)
  \/ \E p \in spawns : ConnectFail(p)
  \/ \E p \in spawns : ListDone(p)
  \/ \E p \in spawns : CleanupDone(p)
  \/ \E o \in ObjIds : TransportClose(o)
  \/ \E o \in ObjIds : TimerFire(o)
  \/ \E b \in Bases : StopServerTool(primaryName(b))
  \/ \E o \in ObjIds : StopFinish(o)

SpecReconnect == Init /\ [][NextReconnect]_vars

\* object o is the one the live index holds under its name
attached(o) == mgd[o].status # "free" /\ servers[mgd[o].name] = o

isPrefix(s, t) == Len(s) <= Len(t) /\ \A i \in 1..Len(s) : s[i] = t[i]

\* C30: no two runs of _doSpawn for the same name are in progress at the
\* same time, whoever started them (a run is in progress from its start to
\* its return: stopping the old server, connecting, listing the tools or
\* cleaning up)
C30_SpawnsSerialized ==
  \A p \in spawns, q \in spawns :
    (/\ p # q /\ p.name = q.name
     /\ p.pc \in {"stopold", "connecting", "listing", "cleanup"}
     /\ q.pc \in {"stopold", "connecting", "listing", "cleanup"}) => FALSE

\* C9: the reconnects scheduled for a non-session instance since an
\* unexpected transport close, while no reconnect attempt has reached
\* CONNECTED, have the delays 2 s, 4 s, 8 s (base_delay * 2^attempt) and
\* there is no fourth
C9_BackoffDelays ==
  \A o \in ObjIds :
    (attached(o) /\ ~includesAt(mgd[o].name)) =>
    isPrefix(mgd[o].hist.episode,
             <<AUTO_RECONNECT_BASE_DELAY_MS, 2 * AUTO_RECONNECT_BASE_DELAY_MS,
               4 * AUTO_RECONNECT_BASE_DELAY_MS>>)

SessionConfigs == {[type |-> "STDIO", stateful |-> TRUE]}

NextSession ==
  \/ \E b \in Bases, cfg \in SessionConfigs : DeclareOnce(b, cfg)
  \/ \E p \in spawns : ConnectOk(p)
  \/ \E p \in spawns : ConnectFail(p)
  \/ \E p \in spawns : ListDone(p)
  \/ \E p \in spawns : CleanupDone(p)
  \/ \E o \in ObjIds : StopFinish(o)
  \/ \E s \in SessionIds : OpenSession(s)
  \/ \E s \in SessionIds, b \in Bases : CallSession(s, b)
  \/ \E c \in CallIds : CompleteCall(c)
  \/ \E s \in SessionIds : Teardown(s)
  \/ \E r \in releases : ReleaseDone(r)

SpecSession == Init /\ [][NextSession]_vars

\* the spawns that _callStatefulInstance has started for the pair (s, b)
\* and that have not returned
sessionSpawns(s, b) ==
  {p \in spawns : /\ p.origin.kind = "session"
                  /\ calls[p.origin.call].sess = s
                  /\ calls[p.origin.call].base = b}

\* the calls of s on b that wait for the spawn lock of the pair
lockWaiting(s, b) ==
  {c \in CallIds : /\ calls[c].state = "sesslock"
                   /\ calls[c].sess = s /\ calls[c].base = b}

\* C31: for every session s and stateful base b at most one spawn started
\* for the pair (s, b) is in progress, it is the holder of the pair's lock
\* and it spawns b@<first 8 of s>; first callers (the map of s has no entry
\* for b yet) that arrive meanwhile wait, start no spawn, and when the spawn
\* returns they run on the instance it made
\* (or get its failure) without a further spawn as long as that instance is
\* in the live index
C31_OneSessionSpawn ==
  /\ [](\A s \in SessionIds, b \in Bases :
          /\ Cardinality(sessionSpawns(s, b)) <= 1
          /\ sessionSpawnLocks[s][b] # 0 <=> sessionSpawns(s, b) # {}
          /\ \A p \in sessionSpawns(s, b) :
               p.sid = sessionSpawnLocks[s][b] /\ p.name = sessionName(b, s)
          /\ lockWaiting(s, b) # {} => sessionSpawns(s, b) # {})
  /\ [][\A s \in SessionIds, b \in Bases, c \in CallIds :
          (/\ sessionSpawns(s, b) # {} /\ b \notin sessionInstances[s].has
           /\ calls[c].state = "new" /\ calls'[c].state # "new"
           /\ calls'[c].sess = s /\ calls'[c].base = b) =>
            (calls'[c].state = "sesslock" /\ spawns' = spawns)]_vars
  /\ [][\A s \in SessionIds, b \in Bases : \A p \in sessionSpawns(s, b) :
          (p.pc \in {"listing", "cleanup"} /\ p.sid \notin {q.sid : q \in spawns'}
           /\ servers'[sessionName(b, s)] = p.obj) =>
            /\ sessionSpawnLocks'[s][b] = 0
            /\ \A c \in lockWaiting(s, b) :
                 /\ calls'[c].on = sessionName(b, s)
                 /\ calls'[c].state = "inflight" => calls'[c].obj = p.obj
                 /\ calls'[c].state # "inflight" =>
                      (calls'[c].state = "done"
                       /\ calls'[c].result = "notconnected")]_vars

\* a second call of the session has arrived while the spawn for the pair is
\* in progress, and waits for it
C31_Witness ==
  \E s \in SessionIds, b \in Bases :
    /\ sessionSpawns(s, b) # {} /\ lockWaiting(s, b) # {}
    /\ \E p \in sessionSpawns(s, b) : p.pc = "connecting"

\* C1: a call that a session issues on a stateful base executes on an
\* instance owned by that session, never on the instance of another session
C1_SessionIsolation ==
  \A c \in CallIds :
    (/\ calls[c].state = "inflight"
     /\ calls[c].sess # NoSession
     /\ includesAt(calls[c].on))
    => mgd[calls[c].obj].owner = calls[c].sess

\* nothing of session s is under way any more: no call of s, no release of
\* s, no stop and no spawn of an instance with the prefix of s
sessionQuiet(s) ==
  /\ \A c \in CallIds : calls[c].sess = s => calls[c].state \in {"new", "done"}
  /\ \A r \in releases : r.sess # s
  /\ \A p \in spawns : p.name.at # shortSession(s)
  /\ \A o \in ObjIds :
       mgd[o].name.at = shortSession(s) => mgd[o].stop # "closing"

\* C2: once session S is torn down and its calls and its release have run
\* to their end, no instance named B@<prefix of S> is in the live index
\* (stated for a session that shares its prefix with no other session)
C2_TeardownRemovesInstances ==
  \A s \in SessionIds :
    (/\ \A t \in SessionIds \ {s} : shortSession(t) # shortSession(s)
     /\ sessions[s] = "closed"
     /\ sessionQuiet(s))
    => \A b \in Bases : servers[sessionName(b, s)] = 0

\* ---------------------------------------------------- stderr specification
\* a worker crashes, at most twice after it has been CONNECTED
CrashEarly(o) ==
  /\ mgd[o].hist.crashes <= 1
  /\ TransportClose(o)

NextStderr ==
  \/ \E b \in Bases, cfg \in ReconnectConfigs : DeclareOnce(b, cfg)
  \/ \E p \in spawns : ConnectOk(p)
  \/ \E p \in spawns : ConnectFail(p)
  \/ \E p \in spawns : ListDone(p)
  \/ \E p \in spawns : CleanupDone(p)
  \/ \E o \in ObjIds : CrashEarly(o)
  \/ \E o \in ObjIds : TimerFire(o)
  \/ \E o \in ObjIds, line \in StderrLines : StderrData(o, line)

SpecStderr == Init /\ [][NextStderr]_vars

CrashConfigs ==
  {[type |-> "STDIO", stateful |-> TRUE], [type |-> "SSE", stateful |-> TRUE],
   [type |-> "STREAMABLE_HTTP", stateful |-> TRUE]}

\* one client
CrashSessions == {<<"p2", "x">>}

\* the transport of a session-owned instance closes
CrashSession(o) ==
  /\ includesAt(mgd[o].name)
  /\ mgd[o].hist.crashes = 0
  /\ TransportClose(o)

NextSessionCrash ==
  \/ \E b \in Bases, cfg \in CrashConfigs : DeclareOnce(b, cfg)
  \/ \E p \in spawns : ConnectOk(p)
  \/ \E p \in spawns : ConnectFail(p)
  \/ \E p \in spawns : ListDone(p)
  \/ \E p \in spawns : CleanupDone(p)
  \/ \E o \in ObjIds : CrashSession(o)
  \/ \E o \in ObjIds : TimerFire(o)
  \/ \E o \in ObjIds : StopFinish(o)
  \/ \E s \in CrashSessions : OpenSession(s)
  \/ \E s \in CrashSessions, b \in Bases : CallSession(s, b)
  \/ \E c \in CallIds : CompleteCall(c)
  \/ \E s \in CrashSessions : Teardown(s)
  \/ \E r \in releases : ReleaseDone(r)

SpecSessionCrash == Init /\ [][NextSessionCrash]_vars

\* C12: no reconnect is scheduled for a session-owned instance (@ in its
\* name), whatever its transport
C12_NoSessionReconnect ==
  \A o \in ObjIds :
    includesAt(mgd[o].name) => (o \notin timers /\ reconnectTimers[mgd[o].name] = 0)

\* C13: a worker that was declared once, whose spawn has failed and which
\* is kept in ERROR without ever having reached CONNECTED, is not in the
\* store
C13_StoredOnlyIfConnected ==
  \A b \in Bases :
    LET o == servers[primaryName(b)]
    IN (o # 0 /\ mgd[o].status = "error" /\ ~mgd[o].hist.connected)
       => store[primaryName(b)] = NoConfig

\* ---------------------------------------------------- update specification
\* the pool, with an operator who updates servers by name while no spawn
\* is under way
UpdateQuiet(n, sf) ==
  /\ spawns = {}
  /\ UpdateServer(n, sf)

NextUpdate ==
  \/ \E b \in Bases, cfg \in PoolConfigs : DeclareOnce(b, cfg)
  \/ \E p \in spawns : ConnectOk(p)
  \/ \E p \in spawns : ConnectFail(p)
  \/ \E p \in spawns : ListDone(p)
  \/ \E p \in spawns : CleanupDone(p)
  \/ \E n \in Names, sf \in UpdateParams : UpdateQuiet(n, sf)
  \/ \E p \in spawns : UpdateAfterStop(p)
  \/ \E o \in ObjIds : StopFinish(o)
  \/ \E b \in Bases : CallQueuedFew(b)
  \/ \E c \in CallIds : CompleteCall(c)
  \/ \E b \in Bases : Age(b)
  \/ \E b \in Bases : Tick(b)
  \/ \E p \in spawns : ScaleStopDone(p)

SpecUpdate == Init /\ [][NextUpdate]_vars

\* C14: the store holds no configuration under a name with # or @
C14_NoDerivedNameStored ==
  \A n \in Names : (includesHash(n) \/ includesAt(n)) => store[n] = NoConfig

\* ------------------------------------------------------ stop specification
NextStop ==
  \/ \E b \in Bases, cfg \in Configs : Declare(b, cfg)
  \/ \E p \in spawns : SpawnAfterStop(p)
  \/ \E p \in spawns : ConnectOk(p)
  \/ \E p \in spawns : ConnectFail(p)
  \/ \E p \in spawns : ListDone(p)
  \/ \E p \in spawns : CleanupDone(p)
  \/ \E n \in Names : StopServerTool(n)
  \/ DeactivateProfile
  \/ \E p \in spawns : DeactivateNext(p)
  \/ \E o \in ObjIds : StopFinish(o)

SpecStop == Init /\ [][NextStop]_vars

WorkerNames == {primaryName(b) : b \in Bases}

NextRemove ==
  \/ \E b \in Bases, cfg \in ReconnectConfigs : DeclareOnce(b, cfg)
  \/ \E p \in spawns : ConnectOk(p)
  \/ \E p \in spawns : ConnectFail(p)
  \/ \E p \in spawns : ListDone(p)
  \/ \E p \in spawns : CleanupDone(p)
  \/ \E o \in ObjIds : TransportClose(o)
  \/ \E o \in ObjIds : TimerFire(o)
  \/ \E n \in WorkerNames \cup {NoName} : RemoveServer(n)
  \/ \E p \in spawns : RemoveAfterStop(p)
  \/ \E o \in ObjIds : StopFinish(o)

SpecRemove == Init /\ [][NextRemove]_vars

\* remove_managed_server(n) returns in this step
removeReturns(n) ==
  \/ servers[n] = 0 /\ RemoveServer(n)
  \/ \E p \in spawns : p.name = n /\ RemoveAfterStop(p)

\* C16: whenever remove_managed_server(n) returns, for a worker name n that
\* is live, stored or neither, its result is no error and n is absent from
\* the live index and from the store
C16_RemoveIdempotent ==
  [][\A n \in WorkerNames :
       removeReturns(n) =>
         /\ reply' = [tool |-> "remove", name |-> n, isError |-> FALSE]
         /\ servers'[n] = 0
         /\ store'[n] = NoConfig]_vars

\* a second removal has returned while the first one awaits its stop
C16_Witness ==
  \E n \in WorkerNames :
    /\ reply = [tool |-> "remove", name |-> n, isError |-> FALSE]
    /\ servers[n] = 0 /\ store[n] = NoConfig
    /\ \E p \in spawns : p.pc = "removestop" /\ p.name = n

\* --------------------------------------------------- startup specification
\* cleanupOrphanedProcesses: the body runs inside one try; db.loadPids()
\* throws when the database has not been opened and the catch discards the
\* error.  Otherwise every recorded process that is alive gets SIGTERM and
\* the table is cleared.
cleanupOrphanedProcesses(st) ==
  IF st.db # "open" THEN st
  ELSE [st EXCEPT
          !.procs = [k \in OldPids |->
                       IF st.procs[k] = "alive"
                          /\ \E n \in Names : st.pids[n] = k
                       THEN "signalled" ELSE st.procs[k]],
          !.pids = [n \in Names |-> 0]]

\* initDb: open the database; the tables are created if they do not exist
initDb(st) == [st EXCEPT !.db = "open"]

\* restoreServers up to its await: spawnServer for every stored
\* configuration whose name is not in the live index
RECURSIVE restoreEach(_, _)
restoreEach(st, ns) ==
  IF ns = {} THEN st
  ELSE LET n == CHOOSE x \in ns : TRUE
       IN IF ~canFork(st) \/ ~canAlloc(st) THEN [st EXCEPT !.fits = FALSE]
          ELSE restoreEach(
                 spawnServer(st, n, st.store[n], origin("restore", 0, 0)),
                 ns \ {n})
restoreServers(st) ==
  restoreEach(st, {n \in Names : st.store[n] # NoConfig /\ st.servers[n] = 0})

\* what the previous run of the supervisor left behind: the servers table,
\* the pids table, and the children that are still alive (each of them is
\* recorded in the pids table)
InitStartup ==
  /\ mgd = [o \in ObjIds |-> NoManaged]
  /\ servers = [n \in Names |-> 0]
  /\ spawns = {}
  /\ spawnLocks = [n \in Names |-> 0]
  /\ timers = {}
  /\ reconnectTimers = [n \in Names |-> 0]
  /\ store \in [Names -> Configs \cup {NoConfig}]
  /\ \A n \in Names : (includesHash(n) \/ includesAt(n)) => store[n] = NoConfig
  /\ queues = [b \in Bases |-> <<>>]
  /\ instances = [b \in Bases |-> <<>>]
  /\ pendingScaleUps = {}
  /\ scalingInProgress = {}
  /\ calls = [c \in CallIds |-> NoCall]
  /\ nextCall = 0
  /\ dispatched = [b \in Bases |-> <<>>]
  /\ sessions = [s \in SessionIds |-> "new"]
  /\ sessionInstances = [s \in SessionIds |-> NoSessionMap]
  /\ sessionSpawnLocks = [s \in SessionIds |-> [b \in Bases |-> 0]]
  /\ releases = {}
  /\ reply = NoReply
  /\ db = "null"
  /\ pids \in [Names -> 0..MaxPid]
  /\ \A n \in Names : (includesHash(n) \/ includesAt(n)) => pids[n] = 0
  /\ procs \in [OldPids -> {"dead", "alive"}]
  /\ \A k \in OldPids : procs[k] = "alive" => \E n \in Names : pids[n] = k
  /\ boot = "load"
  /\ response = NoResponse
  /\ health = NoHealth
  /\ tempDirs = NoTemp
  /\ profiles = NoProfiles
  /\ teardowns = NoTeardowns

\* evaluation of the main module: const processManager = new ProcessManager()
\* runs the constructor, which calls cleanupOrphanedProcesses
Construct ==
  /\ boot = "load"
  /\ Commit([cleanupOrphanedProcesses(Cur) EXCEPT !.boot = "constructed"])

\* main(): initDb, then startHttpServer and restoreServers (HTTP mode), or
\* await mcpServer.connect(transport) (stdio mode)
Main(mode) ==
  /\ boot = "constructed"
  /\ IF mode = "http"
     THEN Commit([restoreServers(initDb(Cur)) EXCEPT !.boot = "running"])
     ELSE Commit([initDb(Cur) EXCEPT !.boot = "connecting"])

\* main() in stdio mode after  await mcpServer.connect(transport)
MainConnected ==
  /\ boot = "connecting"
  /\ Commit([restoreServers(Cur) EXCEPT !.boot = "running"])

NextStartup ==
  \/ Construct
  \/ \E mode \in {"http", "stdio"} : Main(mode)
  \/ MainConnected
  \/ \E p \in spawns : ConnectOk(p)
  \/ \E p \in spawns : ConnectFail(p)
  \/ \E p \in spawns : ListDone(p)
  \/ \E p \in spawns : CleanupDone(p)
  \/ \E o \in ObjIds : CrashEarly(o)
  \/ \E o \in ObjIds : TimerFire(o)

SpecStartup == InitStartup /\ [][NextStartup]_vars

\* restoreServers() is called in this step
restorationBegins == Main("http") \/ MainConnected

\* C17: when restoration begins the pids table is empty and no process
\* recorded in it is left alive without having been signalled
C17_PidsClearedBeforeRestore ==
  [][restorationBegins =>
       /\ \A n \in Names : pids[n] = 0
       /\ \A k \in OldPids : procs[k] # "alive"]_vars

\* ------------------------------------------------------ HTTP specification
\* the sessions make one tool call between them
CallSessionOnce(s, b) ==
  /\ nextCall = 0
  /\ CallSession(s, b)

NextHttp ==
  \/ \E b \in Bases, cfg \in SessionConfigs : DeclareOnce(b, cfg)
  \/ \E p \in spawns : ConnectOk(p)
  \/ \E p \in spawns : ListDone(p)
  \/ \E o \in ObjIds : StopFinish(o)
  \/ \E m \in Methods, h \in SessionIds \cup {NoSession} : HttpRequest(m, h)
  \/ \E s \in SessionIds, b \in Bases : CallSessionOnce(s, b)
  \/ \E c \in CallIds : CompleteCall(c)
  \/ \E s \in SessionIds : Teardown(s)
  \/ \E r \in releases : ReleaseDone(r)

SpecHttp == Init /\ [][NextHttp]_vars

\* handleRequest answers a request in this step (the response of a step
\* is gone at the next one)
answers(m, h) == response'.method = m /\ response'.supplied = h

\* a POST on /mcp that carries no id of an existing session
createsSession(h) ==
  /\ h = NoSession \/ sessions[h] # "open"
  /\ answers("POST", h)

\* C18: there are never more than MAX_SESSIONS sessions, and a
\* session-creating POST that arrives when there are MAX_SESSIONS sessions
\* or more is answered 503 and leaves the sessions as they are
C18_SessionCap ==
  /\ [](sessionsSize(Cur) <= MAX_SESSIONS)
  /\ [][\A h \in SessionIds \cup {NoSession} :
          (createsSession(h) /\ sessionsSize(Cur) >= MAX_SESSIONS) =>
            /\ response'.status = "503"
            /\ sessions' = sessions]_vars

\* MAX_SESSIONS sessions exist and a further session-creating POST has just
\* been answered 503
C18_Witness ==
  /\ sessionsSize(Cur) = MAX_SESSIONS
  /\ response.method = "POST" /\ response.status = "503"
  /\ response.supplied = NoSession \/ sessions[response.supplied] # "open"

\* what a request without the id of an existing session leaves alone
keepsSessions ==
  \A s \in SessionIds :
    sessions[s] = "open" =>
      /\ sessions'[s] = "open"
      /\ sessionInstances'[s] = sessionInstances[s]

\* a new session was created under an id that was never used and that is
\* not h, and the response names it
mintsSession(h) ==
  \E s \in SessionIds :
    /\ s # h /\ sessions[s] = "new" /\ sessions'[s] = "open"
    /\ response'.session = s

\* C19 as stated: GET or DELETE with an unknown id gets 404, without an id
\* 400; a POST with an unknown id creates a session under a fresh id other
\* than the supplied one; existing sessions are left alone
C19_UnknownSessionAsStated ==
  [][\A m \in {"GET", "DELETE", "POST"}, h \in SessionIds \cup {NoSession} :
       (answers(m, h) /\ (h = NoSession \/ sessions[h] # "open")) =>
         /\ (m # "POST" /\ h # NoSession) => response'.status = "404"
         /\ (m # "POST" /\ h = NoSession) => response'.status = "400"
         /\ (m = "POST" /\ h # NoSession) => mintsSession(h)
         /\ keepsSessions]_vars

\* C19: GET or DELETE with an unknown id gets 404, without an id 400; a
\* POST with an unknown id creates a session under a fresh id other than
\* the supplied one when fewer than MAX_SESSIONS sessions exist, and is
\* answered 503 otherwise; existing sessions are left alone
C19_UnknownSessionRequests ==
  [][\A m \in {"GET", "DELETE", "POST"}, h \in SessionIds \cup {NoSession} :
       (answers(m, h) /\ (h = NoSession \/ sessions[h] # "open")) =>
         /\ (m # "POST" /\ h # NoSession) => response'.status = "404"
         /\ (m # "POST" /\ h = NoSession) => response'.status = "400"
         /\ (m = "POST" /\ h # NoSession) =>
              IF sessionsSize(Cur) < MAX_SESSIONS THEN mintsSession(h)
              ELSE response'.status = "503" /\ sessions' = sessions
         /\ keepsSessions]_vars

\* a POST that carried the id of a closed session has created a session
\* under another id while an older session exists
C19_Witness ==
  /\ response.method = "POST" /\ response.supplied # NoSession
  /\ sessions[response.supplied] = "closed"
  /\ response.session # NoSession /\ response.session # response.supplied
  /\ sessions[response.session] = "open"
  /\ sessionsSize(Cur) = 2

\* call c is submitted in this step for base b, which has no handle
\* registered with the queue and no instance in the live index
submittedUnregistered(b, c) ==
  /\ instances[b] = <<>> /\ servers[primaryName(b)] = 0
  /\ calls[c].state = "new" /\ calls'[c].state # "new"
  /\ calls'[c].base = b /\ calls'[c].queued

\* C27 (as claimed): a call enqueued for a base that has no registered
\* instance is not executed and remains queued
C27_StaysQueuedAsStated ==
  [][\A b \in Bases, c \in CallIds :
       submittedUnregistered(b, c) => calls'[c].state = "queued"]_vars

\* C27 (amended): a call enqueued for a base that has no registered instance
\* and no instance in the live index is dispatched at once to a handle that
\* the queue registers for the primary name; no worker executes it, it
\* resolves at once with the server-not-found error result and does not
\* remain queued
C27_UnregisteredAnsweredNotFound ==
  [][\A b \in Bases, c \in CallIds :
       submittedUnregistered(b, c) =>
         /\ calls'[c].state = "done" /\ calls'[c].result = "notfound"
         /\ calls'[c].on = primaryName(b) /\ calls'[c].obj = 0
         /\ queues'[b] = <<>>
         /\ \E i \in 1..Len(instances'[b]) :
              instances'[b][i].internalName = primaryName(b)]_vars

\* a call that went through the queue of a base without instance has been
\* answered "not found"; the handle registered for it is still there
C27_Witness ==
  \E b \in Bases, c \in CallIds :
    /\ calls[c].base = b /\ calls[c].queued
    /\ calls[c].state = "done" /\ calls[c].result = "notfound"
    /\ calls[c].obj = 0 /\ servers[primaryName(b)] = 0
    /\ instances[b] # <<>> /\ queues[b] = <<>>

\* C24: whenever a scaled instance b#k is in the live index, the primary of
\* b is in the live index too, or is being spawned again (a restart or a new
\* declaration of b is under way)
C24_ScaledHasPrimary ==
  \A n \in Names :
    (includesHash(n) /\ servers[n] # 0) =>
      \/ servers[primaryName(n.base)] # 0
      \/ \E p \in spawns : p.name = primaryName(n.base)

\* C20: an object that the idle check stops is a scaled instance (neither
\* a primary nor a session instance) and has no tool call in flight
C20_ReaperSpares ==
  [][\A o \in ObjIds :
       (mgd'[o].reaped /\ ~mgd[o].reaped) =>
         /\ includesHash(mgd[o].name)
         /\ ~includesAt(mgd[o].name)
         /\ \A c \in CallIds :
              ~(calls[c].state = "inflight" /\ calls[c].obj = o)]_vars

\* the idle check has stopped a scaled instance while the primary, which
\* has a call in flight, is still in the live index
C20_Witness ==
  \E o \in ObjIds, b \in Bases :
    /\ mgd[o].reaped /\ mgd[o].name.base = b
    /\ servers[primaryName(b)] # 0
    /\ \E c \in CallIds :
         calls[c].state = "inflight" /\ calls[c].obj = servers[primaryName(b)]

\* ---------------------------------------------------- health specification
\* a stateful worker with one session, an operator who stops the primary,
\* and the health watchdog
NextHealth ==
  \/ \E b \in Bases, cfg \in SessionConfigs : DeclareOnce(b, cfg)
  \/ \E p \in spawns : SpawnProceed(p)
  \/ \E p \in spawns : SpawnAfterStop(p)
  \/ \E p \in spawns : ConnectOk(p)
  \/ \E p \in spawns : ConnectFail(p)
  \/ \E p \in spawns : ListDone(p)
  \/ \E p \in spawns : CleanupDone(p)
  \/ \E b \in Bases : StopServerTool(primaryName(b))
  \/ \E o \in ObjIds : StopFinish(o)
  \/ \E s \in CrashSessions : OpenSession(s)
  \/ \E s \in CrashSessions, b \in Bases : CallSessionOnce(s, b)
  \/ \E c \in CallIds : CompleteCall(c)
  \/ HealthCheck
  \/ ProbeOk
  \/ ProbeFail
  \/ \E p \in spawns : RestartAfterStop(p)

SpecHealth == Init /\ [][NextHealth]_vars

isPrimary(n) == n # NoName /\ ~includesHash(n) /\ ~includesAt(n)

C29_ScaleUpSignal ==
  [][\A b \in Bases :
       b \in response'.signal =>
         /\ queues[b] # <<>>
         /\ calls[Head(queues[b])].aged >= 1
         /\ instances[b] # <<>>
         /\ \A i \in 1..Len(instances[b]) : instances[b][i].busy
         /\ b \notin pendingScaleUps
         /\ \/ b \in pendingScaleUps'
            \/ /\ b \notin scalingInProgress
               /\ ~\E p \in spawns' \ spawns : p.origin.kind = "scale"
            \/ \E p \in spawns' \ spawns :
                 p.origin.kind = "scale" /\ p.pc = "stopold"]_vars

\* onScaleUp has been called for b and has started the spawn of b#1; the
\* flag is set, the head of the queue still waits and all instances are busy
C29_Witness ==
  \E b \in Bases :
    /\ b \in response.signal /\ b \in pendingScaleUps
    /\ \E p \in spawns : p.origin.kind = "scale" /\ p.name.base = b
    /\ queues[b] # <<>>
    /\ \A i \in 1..Len(instances[b]) : instances[b][i].busy

\* C8: whenever a scaled instance B#k is created, the primary of B (if
\* there is one) is a LOCAL (STDIO) worker that is not stateful
C8_ScaledOnlyForLocalStateless ==
  [][\A n \in Names :
       (includesHash(n) /\ servers'[n] # 0 /\ servers'[n] # servers[n]) =>
       LET po == servers'[primaryName(n.base)]
       IN po = 0 \/ (/\ mgd'[po].config.type = "STDIO"
                     /\ ~mgd'[po].config.stateful)]_vars

\* ------------------------------- sessions whose instances the operator stops
\* the sessions make two tool calls between them
CallSessionFew(s, b) ==
  /\ nextCall < MaxFewCalls
  /\ CallSession(s, b)

NextSessionStop ==
  \/ \E b \in Bases, cfg \in SessionConfigs : DeclareOnce(b, cfg)
  \/ \E p \in spawns : ConnectOk(p)
  \/ \E p \in spawns : ConnectFail(p)
  \/ \E p \in spawns : ListDone(p)
  \/ \E p \in spawns : CleanupDone(p)
  \/ \E n \in Names : StopServerTool(n)
  \/ \E o \in ObjIds : StopFinish(o)
  \/ \E s \in CrashSessions : OpenSession(s)
  \/ \E s \in CrashSessions, b \in Bases : CallSessionFew(s, b)
  \/ \E c \in CallIds : CompleteCall(c)

SpecSessionStop == Init /\ [][NextSessionStop]_vars

\* C23: whenever the map of a session s holds base b -> I, an instance named
\* I is in the live index, its base is b and its config is stateful
C23_SessionMapLive ==
  \A s \in SessionIds, b \in Bases :
    b \in sessionInstances[s].has =>
      LET I == sessionName(b, s) IN
      /\ servers[I] # 0
      /\ mgd[servers[I]].name.base = b
      /\ mgd[servers[I]].config.stateful

C26_StoppedIsTerminal ==
  [][\A o \in ObjIds :
       mgd[o].status = "stopped" => mgd'[o].status \in {"stopped", "free"}]_vars

\* ------------------------------------------------ tool calls that time out
NextCallTimeout ==
  \/ \E b \in Bases, cfg \in ReconnectConfigs : Declare(b, cfg)
  \/ \E p \in spawns : SpawnAfterStop(p)
  \/ \E p \in spawns : ConnectOk(p)
  \/ \E p \in spawns : ListDone(p)
  \/ \E o \in ObjIds : TransportClose(o)
  \/ \E b \in Bases : StopServerTool(primaryName(b))
  \/ \E o \in ObjIds : StopFinish(o)
  \/ \E b \in Bases : CallQueuedFew(b)
  \/ \E c \in CallIds : CompleteCall(c)
  \/ \E c \in CallIds : CallTimeout(c)

SpecCallTimeout == Init /\ [][NextCallTimeout]_vars

\* C28: a step in which a tool call times out gives the call an error
\* result and leaves the lifecycle state of the instance alone: its status
\* and its client are what they were (a CONNECTED instance stays CONNECTED
\* with its client), the live index is unchanged, and no reconnect is
\* scheduled and no spawn is started
C28_TimeoutLeavesInstance ==
  [][\A c \in CallIds :
       (calls[c].state = "inflight" /\ calls'[c].result = "timeout") =>
         LET o == calls[c].obj IN
         /\ calls'[c].state = "done"
         /\ mgd'[o].status = mgd[o].status /\ mgd'[o].client = mgd[o].client
         /\ mgd'[o].reconnectAttempts = mgd[o].reconnectAttempts
         /\ servers' = servers
         /\ timers' = timers /\ reconnectTimers' = reconnectTimers
         /\ spawns' = spawns]_vars

\* a call has timed out on an instance that is still CONNECTED in the live
\* index and serves the next call
C28_Witness ==
  \E c \in CallIds, d \in CallIds :
    /\ calls[c].state = "done" /\ calls[c].result = "timeout"
    /\ calls[c].obj # 0 /\ attached(calls[c].obj)
    /\ mgd[calls[c].obj].status = "connected"
    /\ calls[d].state = "inflight" /\ calls[d].obj = calls[c].obj

\* --------------------------------- sessions whose instances get a temp dir
\* a stateful primary run by npx with puppeteer, or with playwright
TempConfigs ==
  {[type |-> "STDIO", stateful |-> TRUE, browser |-> "puppeteer"],
   [type |-> "STDIO", stateful |-> TRUE, browser |-> "playwright"]}

NextSessionTemp ==
  \/ \E b \in Bases, cfg \in TempConfigs : DeclareOnce(b, cfg)
  \/ \E p \in spawns : ConnectOk(p)
  \/ \E p \in spawns : ConnectFail(p)
  \/ \E p \in spawns : ListDone(p)
  \/ \E p \in spawns : CleanupDone(p)
  \/ \E o \in ObjIds : StopFinish(o)
  \/ \E s \in CrashSessions : OpenSession(s)
  \/ \E s \in CrashSessions, b \in Bases : CallSessionFew(s, b)
  \/ \E c \in CallIds : CompleteCall(c)
  \/ \E s \in CrashSessions : Teardown(s)
  \/ \E r \in releases : ReleaseDone(r)

SpecSessionTemp == Init /\ [][NextSessionTemp]_vars

\* C33: every temp directory made for a session is recorded in
\* sessionTempDirs under that session, and once releaseSessionInstances has
\* run for the session and no call of the session is under way any more, none
\* of its temp directories is left on disk, whether the spawn of the instance
\* succeeded or not
C33_TempDirsRemoved ==
  \A s \in SessionIds, d \in DirIds :
    tempDirs.disk[d] = s =>
      /\ d \in tempDirs.session[s]
      /\ ~(/\ sessions[s] = "closed"
           /\ \A r \in releases : r.sess # s
           /\ \A c \in CallIds :
                calls[c].sess = s => calls[c].state \in {"new", "done"})

\* ------------------------------------------------------- custom profiles
toolReply(st, tool, isError) ==
  [st EXCEPT !.reply = [tool |-> tool, name |-> NoName, isError |-> isError]]

\* db.upsertProfile: INSERT ... ON CONFLICT(name) DO UPDATE
upsertProfile(st, n, desc, list) ==
  [st EXCEPT !.profiles[n] = [description |-> desc, servers |-> list]]

\* the create_profile handler
createProfile(st, n, desc, list) ==
  IF list = <<>> THEN toolReply(st, "create_profile", TRUE)
  ELSE IF st.db # "open" THEN toolReply(st, "create_profile", TRUE)
  ELSE toolReply(upsertProfile(st, n, desc, list), "create_profile", FALSE)

\* the delete_profile handler
deleteProfile(st, n) ==
  IF n \in BuiltinProfiles THEN toolReply(st, "delete_profile", TRUE)
  ELSE IF st.db # "open" \/ st.profiles[n] = NoBundle
  THEN toolReply(st, "delete_profile", TRUE)
  ELSE toolReply([st EXCEPT !.profiles[n] = NoBundle], "delete_profile", FALSE)

CreateProfile(n, desc, list) ==
  /\ n \in ProfileNames
  /\ Commit(createProfile(Cur, n, desc, list))

DeleteProfile(n) ==
  /\ n \in ProfileNames
  /\ Commit(deleteProfile(Cur, n))

NextProfiles ==
  \/ \E n \in ProfileNames, desc \in Descriptions, l \in ServerLists :
        CreateProfile(n, desc, l)
  \/ \E n \in ProfileNames : DeleteProfile(n)

SpecProfiles == Init /\ [][NextProfiles]_vars

\* C34: the profiles table never holds a row under the name of a built-in
\* profile (create_profile with such a name is refused and stores nothing)
C34_NoBuiltinBundle ==
  \A n \in BuiltinProfiles : profiles[n] = NoBundle

\* C35: the queue is work-conserving: whenever a step has ended with requests
\* of a base still waiting, the base has at least one registered handle and
\* every registered handle of the base is busy
C35_WorkConserving ==
  \A b \in Bases :
    queues[b] # <<>> =>
      /\ Len(instances[b]) >= 1
      /\ \A i \in 1..Len(instances[b]) : instances[b][i].busy

\* a request waits while every handle of its base is busy, after an earlier
\* queued call has been completed and its handle has been given new work
C35_Witness ==
  \E b \in Bases :
    /\ queues[b] # <<>>
    /\ Len(instances[b]) >= 1
    /\ \A i \in 1..Len(instances[b]) : instances[b][i].busy
    /\ \E c \in CallIds :
         calls[c].state = "done" /\ calls[c].queued /\ calls[c].result = "returned"

\* how often call c stands in the queues
occurrences(c) ==
  Cardinality({<<b, i>> \in Bases \X (1..MaxCalls + MaxExtraCalls) :
                 i <= Len(queues[b]) /\ queues[b][i] = c})

\* C36: a queued call is settled once: it leaves the queue by a dispatch, by
\* the TTL or by a drain, never by two of them; it is executed at most
\* once, rejected at most once, never both, and its promise is settled at
\* most once (exactly once when it is done)
C36_SettledOnce ==
  \A c \in CallIds :
    calls[c].queued =>
      LET left == calls[c].runs + calls[c].expired + calls[c].drained
      IN /\ left <= 1
         /\ calls[c].settles <= 1
         /\ calls[c].state = "queued" =>
              occurrences(c) = 1 /\ left = 0 /\ calls[c].settles = 0
         /\ calls[c].state # "queued" => occurrences(c) = 0 /\ left = 1
         /\ calls[c].state = "inflight" =>
              calls[c].runs = 1 /\ calls[c].settles = 0
         /\ calls[c].state = "done" => calls[c].settles = 1
         /\ calls[c].result = "ttl" => calls[c].expired = 1
         /\ calls[c].result = "stopped" => calls[c].drained = 1
         /\ calls[c].result \in {"returned", "error", "timeout", "notfound",
                                 "notconnected"} => calls[c].runs = 1

\* a drain has just rejected a waiting call, after another call had been
\* taken from the queue and settled
C36_Witness ==
  \E c1, c2 \in CallIds :
    /\ c1 # c2
    /\ calls[c1].queued /\ calls[c1].state = "done" /\ calls[c1].runs = 1
    /\ calls[c2].queued /\ calls[c2].result = "stopped"
    /\ calls[c2].drained = 1

\* C37: the step in which _handleScaleUp finds that its new instance did not
\* reach CONNECTED, and cleans it up, leaves the queue of the base and the
\* handles registered for the base as they were
C37_FailedScaleUpKeepsQueue ==
  [][\A p \in spawns, q \in spawns' :
       (/\ p.sid = q.sid
        /\ p.origin.kind = "scale"
        /\ p.pc # "scalestop"
        /\ q.pc = "scalestop") =>
         /\ queues'[p.name.base] = queues[p.name.base]
         /\ instances'[p.name.base] = instances[p.name.base]]_vars

\* C38: a step of the idle check that stops the idle scaled instance n of
\* base b leaves every other handle of b registered with its busy flag: the
\* primary's, those of busy instances, and those of scaled instances that
\* stay in the live index
C38_ReapOnlyThatInstance ==
  [][\A b \in Bases, n \in Names :
       (/\ n.base = b /\ n.hash >= 1
        /\ servers[n] # 0 /\ servers'[n] = 0
        /\ positionOf(instances[b], n) > 0
        /\ ~instances[b][positionOf(instances[b], n)].busy) =>
         \A i \in 1..Len(instances[b]) :
           LET h == instances[b][i]
           IN (h.internalName # n /\
               (h.index = 0 \/ h.busy \/ servers'[h.internalName] # 0)) =>
                \E k \in 1..Len(instances'[b]) : instances'[b][k] = h]_vars

\* ------------------------------------- removal with watchdog and reconnects
NextRemoveWatch ==
  \/ \E b \in Bases, cfg \in ReconnectConfigs : DeclareOnce(b, cfg)
  \/ \E p \in spawns : SpawnProceed(p)
  \/ \E p \in spawns : SpawnAfterStop(p)
  \/ \E p \in spawns : ConnectOk(p)
  \/ \E p \in spawns : ListDone(p)
  \/ \E o \in ObjIds : TransportClose(o)
  \/ \E o \in ObjIds : TimerFire(o)
  \/ \E n \in WorkerNames : RemoveServer(n)
  \/ \E p \in spawns : RemoveAfterStop(p)
  \/ \E o \in ObjIds : StopFinish(o)
  \/ HealthCheck
  \/ ProbeOk
  \/ ProbeFail
  \/ \E p \in spawns : RestartAfterStop(p)

SpecRemoveWatch == Init /\ [][NextRemoveWatch]_vars

\* remove_managed_server(n) has returned and n has not been declared since
removed(n) ==
  /\ reply = [tool |-> "remove", name |-> n, isError |-> FALSE]
  /\ store[n] = NoConfig
  /\ \A p \in spawns : p.name = n => p.origin.kind \notin {"remove", "declare"}

\* C39: once remove_managed_server(n) has returned, n enters the live index
\* or the store again only in a step in which a client declares it
C39_RemovedStaysGone ==
  [][\A n \in WorkerNames :
       (/\ removed(n)
        /\ \/ servers[n] = 0 /\ servers'[n] # 0
           \/ store'[n] # NoConfig) =>
         \E p \in spawns' :
           /\ p.sid \notin {q.sid : q \in spawns}
           /\ p.name = n /\ p.origin.kind = "declare"]_vars

\* ------------------------------------------------------- session teardown
\* transport.onclose of session s runs (the client has gone, or
\* cleanupSession has closed the transport), or mcpServer.connect rejects
SessionCallback(s) ==
  /\ sessions[s] \in {"open", "closed"}
  /\ Commit(cleanupSession(Cur, s))

RECURSIVE sweepFrom(_, _)
sweepFrom(st, idle) ==
  IF idle = {} THEN st
  ELSE LET s == CHOOSE x \in idle : TRUE
       IN sweepFrom(cleanupSession(st, s), idle \ {s})

\* the session cleanup timer: the sessions of the index that have been idle
\* for SESSION_IDLE_TIMEOUT_MS are cleaned up
IdleSweep(idle) ==
  /\ idle # {}
  /\ \A s \in idle : sessions[s] = "open"
  /\ Commit(sweepFrom(Cur, idle))

NextTeardown ==
  \/ \E b \in Bases, cfg \in SessionConfigs : DeclareOnce(b, cfg)
  \/ \E p \in spawns : ConnectOk(p)
  \/ \E p \in spawns : ListDone(p)
  \/ \E o \in ObjIds : StopFinish(o)
  \/ \E s \in SessionIds : OpenSession(s)
  \/ \E s \in SessionIds, b \in Bases : CallSessionOnce(s, b)
  \/ \E c \in CallIds : CompleteCall(c)
  \/ \E h \in SessionIds : HttpRequest("DELETE", h)
  \/ \E s \in SessionIds : SessionCallback(s)
  \/ \E idle \in SUBSET SessionIds : IdleSweep(idle)
  \/ \E r \in releases : ReleaseDone(r)

SpecTeardown == Init /\ [][NextTeardown]_vars

\* C40: however often cleanupSession runs for a session, the session is
\* deleted from the index once, session:closed is emitted once and
\* releaseSessionInstances is called once; none of them before the first
\* cleanupSession
C40_TeardownOnce ==
  \A s \in SessionIds :
    /\ teardowns[s].deleted <= 1
    /\ teardowns[s].closed <= 1
    /\ teardowns[s].released <= 1
    /\ sessions[s] = "closed" <=>
         /\ teardowns[s].deleted = 1
         /\ teardowns[s].closed = 1
         /\ teardowns[s].released = 1
    /\ sessions[s] # "closed" =>
         /\ teardowns[s].deleted = 0
         /\ teardowns[s].closed = 0
         /\ teardowns[s].released = 0

\* cleanupSession has run at least twice for a session that owned an
\* instance
C40_Witness ==
  \E s \in SessionIds :
    /\ teardowns[s].calls = 2
    /\ teardowns[s].released = 1
    /\ \E o \in ObjIds : mgd[o].owner = s /\ mgd[o].status = "stopped"

====
